---- MODULE Spec2Model ----
(***************************************************************************)
(* Multi-zone heating supervisor (don_controller).                         *)
(*                                                                         *)
(* ZoneWrapper (zone_wrapper.py) keeps one room's error / PID state;       *)
(* MasterController (master_controller.py) routes every state-change event *)
(* to a zone or a valve, then arbitrates over all zones and commands the   *)
(* boiler flow temperature.                                                *)
(*                                                                         *)
(* Numbers.  Temperatures, valve percentages and clock readings are        *)
(* integers; priorities are kept in tenths (priority 0.5 is 5).  The gains *)
(* KP = 0.5, KI = 0.01, KD = 0.1, the demand metric and every PID value    *)
(* are exact rationals <<numerator, denominator>> in lowest terms with a   *)
(* positive denominator, so the arithmetic is that of the source over the  *)
(* reals (IEEE rounding, NaN and infinities are outside the model; the     *)
(* specification restricts observations to finite numbers).                *)
(***************************************************************************)
EXTENDS Integers, Sequences, FiniteSets, TLC

\* ------------------------------------------------------------------------
\* Bounds of the model
\* ------------------------------------------------------------------------
MaxEvents == 3
ClockStart == 1

\* ------------------------------------------------------------------------
\* Program constants
\* ------------------------------------------------------------------------
KP == <<1, 2>>
KI == <<1, 100>>
KD == <<1, 10>>
MIN_FLOW_TEMP == 5
MAX_FLOW_TEMP == 80
BASE_FLOW_TEMP == 40
INTEGRAL_LIMIT == 10000
PRIORITY_ONE == 10
PRIORITY_SPLIT == 5
TRV_FULLY_OPEN == 100

\* ------------------------------------------------------------------------
\* Exact rational arithmetic
\* ------------------------------------------------------------------------
Abs(x) == IF x < 0 THEN -x ELSE x

RECURSIVE GCD(_, _)
GCD(a, b) == IF b = 0 THEN a ELSE GCD(b, a % b)

\* n/d in lowest terms, d > 0
Rat(n, d) ==
    LET s == IF d < 0 THEN -1 ELSE 1
        g == GCD(Abs(n), Abs(d))
    IN  <<(s * n) \div g, (s * d) \div g>>

RInt(n) == <<n, 1>>
RAdd(p, q) == Rat(p[1] * q[2] + q[1] * p[2], p[2] * q[2])
RMul(p, q) == Rat(p[1] * q[1], p[2] * q[2])
RDivInt(p, n) == Rat(p[1], p[2] * n)
RLess(p, q) == p[1] * q[2] < q[1] * p[2]
RLeq(p, q) == p[1] * q[2] <= q[1] * p[2]
\* Python's min(a, b) / max(a, b): the first argument unless the second is
\* strictly smaller / larger
RMin(p, q) == IF RLess(q, p) THEN q ELSE p
RMax(p, q) == IF RLess(p, q) THEN q ELSE p
IMin(a, b) == IF b < a THEN b ELSE a
IMax(a, b) == IF b > a THEN b ELSE a

\* ------------------------------------------------------------------------
\* Configuration: three zones in insertion order
\* ------------------------------------------------------------------------
ZoneOrder == <<"climate.z1", "climate.z2", "climate.z3">>
ZoneIds == {ZoneOrder[i] : i \in 1..Len(ZoneOrder)}
NO_TRV == "none"
UNKNOWN_ENTITY == "sensor.unknown"

\* zone_configs handed to the constructor: priority in tenths as configured
\* (possibly outside 0..10) and the optional TRV entity
ConfigA ==
    [z \in ZoneIds |->
       CASE z = "climate.z1" -> [priority |-> 10, trv_entity_id |-> "number.v1"]
         [] z = "climate.z2" -> [priority |-> 5,  trv_entity_id |-> "number.v2"]
         [] z = "climate.z3" -> [priority |-> 2,  trv_entity_id |-> NO_TRV]]

ConfigB ==
    [z \in ZoneIds |->
       CASE z = "climate.z1" -> [priority |-> 6,  trv_entity_id |-> "number.v1"]
         [] z = "climate.z2" -> [priority |-> 14, trv_entity_id |-> "number.v2"]
         [] z = "climate.z3" -> [priority |-> -3, trv_entity_id |-> NO_TRV]]

ZoneConfigs == {ConfigA, ConfigB}

\* two zones with a valve each that differ in priority only (1.0 and 0.2)
ConfigPair ==
    [z \in ZoneIds |->
       CASE z = "climate.z1" -> [priority |-> 10, trv_entity_id |-> "number.v1"]
         [] z = "climate.z2" -> [priority |-> 2,  trv_entity_id |-> "number.v2"]
         [] z = "climate.z3" -> [priority |-> 2,  trv_entity_id |-> NO_TRV]]

\* the low-priority zones are configured before the high-priority one
ConfigC ==
    [z \in ZoneIds |->
       CASE z = "climate.z1" -> [priority |-> 2,  trv_entity_id |-> "number.v1"]
         [] z = "climate.z2" -> [priority |-> 5,  trv_entity_id |-> "number.v2"]
         [] z = "climate.z3" -> [priority |-> 10, trv_entity_id |-> NO_TRV]]

TrvIds == {"number.v1", "number.v2"}
EntityIds == ZoneIds \cup TrvIds \cup {UNKNOWN_ENTITY}

\* mutant: the configured priority is stored as it is
NewZoneNoClamp(cfg) ==
    [ priority             |-> cfg.priority,
      trv_entity_id        |-> cfg.trv_entity_id,
      current_error        |-> 0,
      pid_integral_sum     |-> 0,
      last_error           |-> 0,
      last_update_time     |-> 0,
      is_demanding_heat    |-> FALSE,
      target_temp          |-> 0,
      last_target_temp     |-> 0,
      current_temp         |-> 0,
      trv_opening_percent  |-> TRV_FULLY_OPEN,
      last_pid_output      |-> RInt(0),
      last_pid_p           |-> RInt(0),
      last_pid_i           |-> RInt(0),
      last_pid_d           |-> RInt(0) ]

\* ZoneWrapper.__init__
NewZone(cfg) ==
    [ priority             |-> IMax(0, IMin(PRIORITY_ONE, cfg.priority)),
      trv_entity_id        |-> cfg.trv_entity_id,
      current_error        |-> 0,
      pid_integral_sum     |-> 0,
      last_error           |-> 0,
      last_update_time     |-> 0,
      is_demanding_heat    |-> FALSE,
      target_temp          |-> 0,
      last_target_temp     |-> 0,
      current_temp         |-> 0,
      trv_opening_percent  |-> TRV_FULLY_OPEN,
      last_pid_output      |-> RInt(0),
      last_pid_p           |-> RInt(0),
      last_pid_i           |-> RInt(0),
      last_pid_d           |-> RInt(0) ]

\* ------------------------------------------------------------------------
\* Observations (Home Assistant state objects)
\* ------------------------------------------------------------------------
\* An attribute is absent, a number, or a value float() rejects (None, a
\* non-numeric string).
Num(v) == [kind |-> "num", val |-> v]
MISSING == [kind |-> "missing", val |-> 0]
BAD == [kind |-> "bad", val |-> 0]

\* mutant: a value that is not a number is read as the default
ParseFloatLenient(a, default) ==
    CASE a.kind = "num" -> [ok |-> TRUE, val |-> a.val]
      [] OTHER          -> [ok |-> TRUE, val |-> default]

\* float(attributes.get(key, default)); ok = FALSE is ValueError / TypeError
ParseFloat(a, default) ==
    CASE a.kind = "missing" -> [ok |-> TRUE, val |-> default]
      [] a.kind = "num"     -> [ok |-> TRUE, val |-> a.val]
      [] OTHER              -> [ok |-> FALSE, val |-> 0]

\* mutant: a state without hvac_action counts as heating
GetHvacActionDefaultHeating(a) == IF a = "missing" THEN "heating" ELSE a

\* attributes.get('hvac_action', 'off')
GetHvacAction(a) == IF a = "missing" THEN "off" ELSE a

\* new_state = None
NoState == [present |-> FALSE, current_temperature |-> MISSING,
            temperature |-> MISSING, hvac_action |-> "missing", state |-> BAD]

ClimateState(cur, tgt, act) ==
    [present |-> TRUE, current_temperature |-> cur, temperature |-> tgt,
     hvac_action |-> act, state |-> BAD]

NumberState(v) ==
    [present |-> TRUE, current_temperature |-> MISSING,
     temperature |-> MISSING, hvac_action |-> "missing", state |-> v]

\* ------------------------------------------------------------------------
\* ZoneWrapper
\* ------------------------------------------------------------------------
\* mutant: no anti-windup clamp
ClampIntegralNone(x) == x

\* the anti-windup clamp of update_from_state
ClampIntegral(x) == IMax(-INTEGRAL_LIMIT, IMin(INTEGRAL_LIMIT, x))

\* mutant: every observation counts as a setpoint change
TargetChangedAlways(zone, target_temp) == TRUE

\* the setpoint-change test of update_from_state
TargetChanged(zone, target_temp) ==
    target_temp # zone.last_target_temp /\ zone.last_target_temp > 0

\* mutant: the time of the first observation is measured from 0
TimeDeltaNoFirst(zone, time_now) == time_now - zone.last_update_time

\* time_now - last_update_time if last_update_time else 0
TimeDelta(zone, time_now) ==
    IF zone.last_update_time # 0 THEN time_now - zone.last_update_time ELSE 0

\* mutant: the error is measured the other way round
NewErrorReversed(target_temp, current_temp) == current_temp - target_temp

\* new_error of update_from_state
NewError(target_temp, current_temp) == target_temp - current_temp

\* mutant: only a heating observation advances last_update_time
update_from_stateKeepsTime(zone, new_state, time_now) ==
    LET cur == ParseFloat(new_state.current_temperature, 0)
        tgt == ParseFloat(new_state.temperature, 0)
    IN
    IF ~new_state.present THEN [zone |-> zone, log |-> {}]
    ELSE IF ~cur.ok \/ ~tgt.ok THEN [zone |-> zone, log |-> {"data_error"}]
    ELSE
      LET reset == TargetChanged(zone, tgt.val)
          integral0 == IF reset THEN 0 ELSE zone.pid_integral_sum
          heating == (GetHvacAction(new_state.hvac_action) = "heating")
          new_error == NewError(tgt.val, cur.val)
      IN [zone |->
            [zone EXCEPT
               !.current_temp = cur.val,
               !.target_temp = tgt.val,
               !.last_target_temp = tgt.val,
               !.is_demanding_heat = heating,
               !.pid_integral_sum =
                   IF heating
                   THEN ClampIntegral(integral0 + new_error * TimeDelta(zone, time_now))
                   ELSE integral0,
               !.last_error = IF heating THEN zone.current_error
                              ELSE IF reset THEN 0 ELSE zone.last_error,
               !.current_error = new_error,
               !.last_update_time = IF heating \/ zone.last_update_time = 0
                                    THEN time_now ELSE zone.last_update_time],
          log |-> IF reset THEN {"target_changed"} ELSE {}]

\* mutant: a heating observation stores its own error as the previous one
update_from_stateNoLag(zone, new_state, time_now) ==
    LET cur == ParseFloat(new_state.current_temperature, 0)
        tgt == ParseFloat(new_state.temperature, 0)
    IN
    IF ~new_state.present THEN [zone |-> zone, log |-> {}]
    ELSE IF ~cur.ok \/ ~tgt.ok THEN [zone |-> zone, log |-> {"data_error"}]
    ELSE
      LET reset == TargetChanged(zone, tgt.val)
          integral0 == IF reset THEN 0 ELSE zone.pid_integral_sum
          heating == (GetHvacAction(new_state.hvac_action) = "heating")
          new_error == NewError(tgt.val, cur.val)
      IN [zone |->
            [zone EXCEPT
               !.current_temp = cur.val,
               !.target_temp = tgt.val,
               !.last_target_temp = tgt.val,
               !.is_demanding_heat = heating,
               !.pid_integral_sum =
                   IF heating
                   THEN ClampIntegral(integral0 + new_error * TimeDelta(zone, time_now))
                   ELSE integral0,
               !.last_error = IF heating THEN new_error
                              ELSE IF reset THEN 0 ELSE zone.last_error,
               !.current_error = new_error,
               !.last_update_time = time_now],
          log |-> IF reset THEN {"target_changed"} ELSE {}]

\* ZoneWrapper.update_from_state: the zone afterwards and the log lines
update_from_state(zone, new_state, time_now) ==
    LET cur == ParseFloat(new_state.current_temperature, 0)
        tgt == ParseFloat(new_state.temperature, 0)
    IN
    IF ~new_state.present THEN [zone |-> zone, log |-> {}]
    ELSE IF ~cur.ok \/ ~tgt.ok THEN [zone |-> zone, log |-> {"data_error"}]
    ELSE
      LET current_temp == cur.val
          target_temp == tgt.val
          hvac_action == GetHvacAction(new_state.hvac_action)
          reset == TargetChanged(zone, target_temp)
          integral0 == IF reset THEN 0 ELSE zone.pid_integral_sum
          last_error0 == IF reset THEN 0 ELSE zone.last_error
          heating == (hvac_action = "heating")
          new_error == NewError(target_temp, current_temp)
          time_delta == TimeDelta(zone, time_now)
      IN [zone |->
            [zone EXCEPT
               !.current_temp = current_temp,
               !.target_temp = target_temp,
               !.last_target_temp = target_temp,
               !.is_demanding_heat = heating,
               !.pid_integral_sum =
                   IF heating THEN ClampIntegral(integral0 + new_error * time_delta)
                   ELSE integral0,
               !.last_error = IF heating THEN zone.current_error ELSE last_error0,
               !.current_error = new_error,
               !.last_update_time = time_now],
          log |-> IF reset THEN {"target_changed"} ELSE {}]

\* mutant: the metric of a heating zone is boosted whatever its error
get_demand_metricNoErrorGuard(zone) ==
    IF ~zone.is_demanding_heat THEN RInt(0)
    ELSE IF zone.trv_opening_percent < 100 /\ zone.trv_opening_percent > 0
         THEN RMul(RInt(zone.current_error), Rat(100, zone.trv_opening_percent))
         ELSE RInt(zone.current_error)

\* mutant: the metric is weighted with the priority
get_demand_metricWeighted(zone) ==
    IF ~zone.is_demanding_heat \/ zone.current_error <= 0 THEN RInt(0)
    ELSE IF zone.trv_opening_percent < 100 /\ zone.trv_opening_percent > 0
         THEN RMul(RMul(RInt(zone.current_error), Rat(100, zone.trv_opening_percent)),
                   Rat(zone.priority, PRIORITY_ONE))
         ELSE RMul(RInt(zone.current_error), Rat(zone.priority, PRIORITY_ONE))

\* mutant: the boost is the opening over 100
get_demand_metricInverted(zone) ==
    IF ~zone.is_demanding_heat \/ zone.current_error <= 0 THEN RInt(0)
    ELSE IF zone.trv_opening_percent < 100 /\ zone.trv_opening_percent > 0
         THEN RMul(RInt(zone.current_error), Rat(zone.trv_opening_percent, 100))
         ELSE RInt(zone.current_error)

\* ZoneWrapper.get_demand_metric
get_demand_metric(zone) ==
    IF ~zone.is_demanding_heat \/ zone.current_error <= 0 THEN RInt(0)
    ELSE IF zone.trv_opening_percent < 100 /\ zone.trv_opening_percent > 0
         THEN RMul(RInt(zone.current_error), Rat(100, zone.trv_opening_percent))
         ELSE RInt(zone.current_error)

\* mutant: the derivative gain is left out
DerivativeTermNoGain(zone, time_delta) ==
    IF time_delta > 0
    THEN RDivInt(RInt(zone.current_error - zone.last_error), time_delta)
    ELSE RInt(0)

\* the derivative term of calculate_pid_output
DerivativeTerm(zone, time_delta) ==
    IF time_delta > 0
    THEN RMul(RDivInt(RInt(zone.current_error - zone.last_error), time_delta), KD)
    ELSE RInt(0)

\* mutant: the proportional term is taken from the boosted demand metric
calculate_pid_outputBoosted(zone, time_delta) ==
    LET P == RMul(get_demand_metric(zone), KP)
        I == RMul(RInt(zone.pid_integral_sum), KI)
        D == DerivativeTerm(zone, time_delta)
    IN [zone EXCEPT !.last_pid_p = P, !.last_pid_i = I, !.last_pid_d = D,
                    !.last_pid_output = RAdd(RAdd(P, I), D)]

\* mutant: the derivative term is stored but left out of the sum
calculate_pid_outputNoD(zone, time_delta) ==
    LET P == RMul(RInt(zone.current_error), KP)
        I == RMul(RInt(zone.pid_integral_sum), KI)
        D == DerivativeTerm(zone, time_delta)
    IN [zone EXCEPT !.last_pid_p = P, !.last_pid_i = I, !.last_pid_d = D,
                    !.last_pid_output = RAdd(P, I)]

\* ZoneWrapper.calculate_pid_output: the zone with the stored components
calculate_pid_output(zone, time_delta) ==
    LET P == RMul(RInt(zone.current_error), KP)
        I == RMul(RInt(zone.pid_integral_sum), KI)
        D == DerivativeTerm(zone, time_delta)
    IN [zone EXCEPT !.last_pid_p = P, !.last_pid_i = I, !.last_pid_d = D,
                    !.last_pid_output = RAdd(RAdd(P, I), D)]

\* mutant: the reported opening is stored as it is
update_trv_openingNoClamp(zone, opening_percent) ==
    IF opening_percent # zone.trv_opening_percent
    THEN [zone EXCEPT !.trv_opening_percent = opening_percent]
    ELSE zone

\* ZoneWrapper.update_trv_opening
update_trv_opening(zone, opening_percent) ==
    IF opening_percent # zone.trv_opening_percent
    THEN [zone EXCEPT !.trv_opening_percent = IMax(0, IMin(100, opening_percent))]
    ELSE zone

\* ------------------------------------------------------------------------
\* MasterController
\* ------------------------------------------------------------------------
NO_ZONE == "none"

\* MasterController.__init__: one ZoneWrapper per configuration entry
NewController(cfgs) == [z \in DOMAIN cfgs |-> NewZone(cfgs[z])]

\* mutant: a priority of exactly 0.5 counts as high
HighPriorityZonesInclusive(zs) ==
    SelectSeq(ZoneOrder,
              LAMBDA z : zs[z].is_demanding_heat /\ zs[z].priority >= PRIORITY_SPLIT)

\* demanding zones with priority > 0.5, in insertion order
HighPriorityZones(zs) ==
    SelectSeq(ZoneOrder,
              LAMBDA z : zs[z].is_demanding_heat /\ zs[z].priority > PRIORITY_SPLIT)

\* mutant: only the low-priority zones with a positive demand are counted
LowPriorityZonesPositive(zs) ==
    SelectSeq(ZoneOrder,
              LAMBDA z : /\ zs[z].is_demanding_heat /\ ~(zs[z].priority > PRIORITY_SPLIT)
                         /\ zs[z].current_error > 0)

\* demanding zones with priority <= 0.5, in insertion order
LowPriorityZones(zs) ==
    SelectSeq(ZoneOrder,
              LAMBDA z : zs[z].is_demanding_heat /\ ~(zs[z].priority > PRIORITY_SPLIT))

\* mutant: the low-priority zones count only from three demanding on
BoilerDemandEligibleThreeLow(zs) ==
    HighPriorityZones(zs) \o
        (IF Len(LowPriorityZones(zs)) >= 3 THEN LowPriorityZones(zs) ELSE <<>>)

\* mutant: a single demanding low-priority zone is enough
BoilerDemandEligibleAnyLow(zs) == HighPriorityZones(zs) \o LowPriorityZones(zs)

\* boiler_demand_eligible: every high-priority demanding zone, then the
\* low-priority ones if at least two of them demand
BoilerDemandEligible(zs) ==
    HighPriorityZones(zs) \o
        (IF Len(LowPriorityZones(zs)) >= 2 THEN LowPriorityZones(zs) ELSE <<>>)

\* mutant: the last eligible zone with a positive demand wins
RECURSIVE MaxDemandScanLast(_, _, _, _)
MaxDemandScanLast(zs, eligible, i, best) ==
    IF i > Len(eligible) THEN best
    ELSE LET z == eligible[i]
             demand_metric == get_demand_metric(zs[z])
         IN MaxDemandScanLast(zs, eligible, i + 1,
                IF RLess(RInt(0), demand_metric)
                THEN [max_demand_zone |-> z, max_demand |-> demand_metric]
                ELSE best)

\* mutant: a later zone replaces the candidate with an equal demand metric too
RECURSIVE MaxDemandScanTie(_, _, _, _)
MaxDemandScanTie(zs, eligible, i, best) ==
    IF i > Len(eligible) THEN best
    ELSE LET z == eligible[i]
             demand_metric == get_demand_metric(zs[z])
         IN MaxDemandScanTie(zs, eligible, i + 1,
                IF RLess(RInt(0), demand_metric) /\ RLeq(best.max_demand, demand_metric)
                THEN [max_demand_zone |-> z, max_demand |-> demand_metric]
                ELSE best)

\* the max-demand loop: a later zone replaces the candidate only with a
\* strictly larger demand metric
RECURSIVE MaxDemandScan(_, _, _, _)
MaxDemandScan(zs, eligible, i, best) ==
    IF i > Len(eligible) THEN best
    ELSE LET z == eligible[i]
             demand_metric == get_demand_metric(zs[z])
         IN MaxDemandScan(zs, eligible, i + 1,
                IF RLess(best.max_demand, demand_metric)
                THEN [max_demand_zone |-> z, max_demand |-> demand_metric]
                ELSE best)

MaxDemand(zs) ==
    MaxDemandScan(zs, BoilerDemandEligible(zs), 1,
                  [max_demand_zone |-> NO_ZONE, max_demand |-> RInt(0)])

\* mutant: the ceiling is not applied
ClampFlowNoCeiling(x) == RMax(RInt(MIN_FLOW_TEMP), x)

\* max(MIN_FLOW_TEMP, min(MAX_FLOW_TEMP, x))
ClampFlow(x) == RMax(RInt(MIN_FLOW_TEMP), RMin(RInt(MAX_FLOW_TEMP), x))

\* MasterController.async_set_opentherm_flow_temp: the value handed to the
\* number.set_value service
async_set_opentherm_flow_temp(flow_temp) == ClampFlow(flow_temp)

\* mutant: the base temperature is requested instead of the off signal
NoDemandFlowTempBase == RInt(BASE_FLOW_TEMP)

\* the flow temperature requested when no eligible zone demands heat
NoDemandFlowTemp == RInt(MIN_FLOW_TEMP)

\* required_flow_temp of _calculate_and_command for a winner whose PID
\* components have been computed
RequiredFlowTemp(zone) == ClampFlow(RAdd(RInt(BASE_FLOW_TEMP), zone.last_pid_output))

\* mutant: the recalculation refreshes the PID components of every zone
calculate_and_commandRefreshAll(zs, time_arb) ==
    LET best == MaxDemand(zs)
        w == best.max_demand_zone
    IN IF w # NO_ZONE
       THEN LET time_delta == IF zs[w].last_update_time # 0
                              THEN time_arb - zs[w].last_update_time ELSE 0
                wz == calculate_pid_output(zs[w], time_delta)
            IN [zones |-> [z \in DOMAIN zs |->
                              IF z = w THEN wz ELSE calculate_pid_output(zs[z], 0)],
                max_demand_zone |-> w,
                sent |-> <<async_set_opentherm_flow_temp(RequiredFlowTemp(wz))>>,
                log |-> {"boiler_on"}]
       ELSE [zones |-> zs,
             max_demand_zone |-> NO_ZONE,
             sent |-> <<async_set_opentherm_flow_temp(NoDemandFlowTemp)>>,
             log |-> {"boiler_off"}]

\* mutant: a winner updated at the clock reading of the recalculation gets
\* a time_delta of one second
calculate_and_commandUnitDelta(zs, time_arb) ==
    LET best == MaxDemand(zs)
        w == best.max_demand_zone
    IN IF w # NO_ZONE
       THEN LET time_delta == IF zs[w].last_update_time # 0
                                 /\ time_arb # zs[w].last_update_time
                              THEN time_arb - zs[w].last_update_time ELSE 1
                wz == calculate_pid_output(zs[w], time_delta)
            IN [zones |-> [zs EXCEPT ![w] = wz],
                max_demand_zone |-> w,
                sent |-> <<async_set_opentherm_flow_temp(RequiredFlowTemp(wz))>>,
                log |-> {"boiler_on"}]
       ELSE [zones |-> zs,
             max_demand_zone |-> NO_ZONE,
             sent |-> <<async_set_opentherm_flow_temp(NoDemandFlowTemp)>>,
             log |-> {"boiler_off"}]

\* MasterController._calculate_and_command at clock reading time_arb: the
\* zones afterwards, the winner, the value sent to the actuator, the log
calculate_and_command(zs, time_arb) ==
    LET best == MaxDemand(zs)
        w == best.max_demand_zone
    IN IF w # NO_ZONE
       THEN LET time_delta == IF zs[w].last_update_time # 0
                              THEN time_arb - zs[w].last_update_time ELSE 0
                wz == calculate_pid_output(zs[w], time_delta)
            IN [zones |-> [zs EXCEPT ![w] = wz],
                max_demand_zone |-> w,
                sent |-> <<async_set_opentherm_flow_temp(RequiredFlowTemp(wz))>>,
                log |-> {"boiler_on"}]
       ELSE [zones |-> zs,
             max_demand_zone |-> NO_ZONE,
             sent |-> <<async_set_opentherm_flow_temp(NoDemandFlowTemp)>>,
             log |-> {"boiler_off"}]

\* mutant: an entity that is no zone's TRV is taken for the first zone's
RECURSIVE TrvZoneIndexOrFirst(_, _, _)
TrvZoneIndexOrFirst(zs, entity_id, i) ==
    IF i > Len(ZoneOrder) THEN 1
    ELSE IF zs[ZoneOrder[i]].trv_entity_id = entity_id THEN i
    ELSE TrvZoneIndexOrFirst(zs, entity_id, i + 1)

\* mutant: a valve report goes to the first zone that has another valve
RECURSIVE TrvZoneIndexMisrouted(_, _, _)
TrvZoneIndexMisrouted(zs, entity_id, i) ==
    IF i > Len(ZoneOrder) THEN 0
    ELSE IF /\ \E z \in DOMAIN zs : zs[z].trv_entity_id = entity_id
            /\ zs[ZoneOrder[i]].trv_entity_id \notin {entity_id, NO_TRV}
         THEN i
    ELSE TrvZoneIndexMisrouted(zs, entity_id, i + 1)

\* index in ZoneOrder of the first zone whose TRV entity is entity_id, 0 if none
RECURSIVE TrvZoneIndex(_, _, _)
TrvZoneIndex(zs, entity_id, i) ==
    IF i > Len(ZoneOrder) THEN 0
    ELSE IF zs[ZoneOrder[i]].trv_entity_id = entity_id THEN i
    ELSE TrvZoneIndex(zs, entity_id, i + 1)

\* the state update of _async_hvac_demand_change (everything before the
\* recalculation): the zones afterwards and the log lines
DispatchEvent(zs, entity_id, new_state, time_now) ==
    IF entity_id \in ZoneIds /\ new_state.present
    THEN LET r == update_from_state(zs[entity_id], new_state, time_now)
         IN [zones |-> [zs EXCEPT ![entity_id] = r.zone], log |-> r.log]
    ELSE LET i == IF new_state.present THEN TrvZoneIndex(zs, entity_id, 1) ELSE 0
             trv_opening == ParseFloat(new_state.state, 0)
             \* the for loop rebinds "zone": after a loop over a non-empty
             \* dict it is a ZoneWrapper whatever entity_id was
             zone_is_none == entity_id \notin ZoneIds /\ Len(ZoneOrder) = 0
         IN IF i # 0 /\ trv_opening.ok
            THEN [zones |-> [zs EXCEPT ![ZoneOrder[i]] =
                                update_trv_opening(zs[ZoneOrder[i]], trv_opening.val)],
                  log |-> {}]
            ELSE [zones |-> zs,
                  log |-> (IF i # 0 THEN {"trv_error"} ELSE {}) \cup
                          (IF zone_is_none THEN {"unknown_entity"} ELSE {})]

\* mutant: an event that matches no zone and no valve returns early
async_hvac_demand_changeEarlyReturn(zs, entity_id, new_state, time_now, time_arb) ==
    LET d == DispatchEvent(zs, entity_id, new_state, time_now)
        c == calculate_and_command(d.zones, time_arb)
    IN IF entity_id \notin ZoneIds /\ TrvZoneIndex(zs, entity_id, 1) = 0
       THEN [zones |-> zs, max_demand_zone |-> NO_ZONE, sent |-> <<>>, log |-> d.log]
       ELSE [zones |-> c.zones, max_demand_zone |-> c.max_demand_zone,
             sent |-> c.sent, log |-> d.log \cup c.log]

\* mutant: the recalculation works on the zones as they were before the
\* handler's own update
async_hvac_demand_changeStale(zs, entity_id, new_state, time_now, time_arb) ==
    LET d == DispatchEvent(zs, entity_id, new_state, time_now)
        c == calculate_and_command(zs, time_arb)
    IN [zones |-> d.zones, max_demand_zone |-> c.max_demand_zone,
        sent |-> c.sent, log |-> d.log \cup c.log]

\* MasterController._async_hvac_demand_change: the update at clock reading
\* time_now, then the recalculation at clock reading time_arb
async_hvac_demand_change(zs, entity_id, new_state, time_now, time_arb) ==
    LET d == DispatchEvent(zs, entity_id, new_state, time_now)
        c == calculate_and_command(d.zones, time_arb)
    IN [zones |-> c.zones, max_demand_zone |-> c.max_demand_zone,
        sent |-> c.sent, log |-> d.log \cup c.log]

\* ------------------------------------------------------------------------
\* State export
\* ------------------------------------------------------------------------
\* round(x, digits) of a rational to a multiple of 1/scale, halves to even
RRound(p, scale) ==
    LET n == p[1] * scale
        q == n \div p[2]
        rem == n - q * p[2]
    IN Rat(IF 2 * rem < p[2] THEN q
           ELSE IF 2 * rem > p[2] THEN q + 1
           ELSE IF q % 2 = 0 THEN q ELSE q + 1,
           scale)

NONE == "None"

\* ZoneWrapper.export_pid_state
export_pid_state(zone) ==
    [ current_temperature |-> RRound(RInt(zone.current_temp), 100),
      target_temperature  |-> RRound(RInt(zone.target_temp), 100),
      temperature_error   |-> RRound(RInt(zone.current_error), 100),
      pid_proportional    |-> RRound(zone.last_pid_p, 100),
      pid_integral        |-> RRound(zone.last_pid_i, 100),
      pid_derivative      |-> RRound(zone.last_pid_d, 100),
      pid_output          |-> RRound(zone.last_pid_output, 100),
      priority            |-> RRound(Rat(zone.priority, PRIORITY_ONE), 100),
      is_demanding_heat   |-> zone.is_demanding_heat,
      integral_sum        |-> RRound(RInt(zone.pid_integral_sum), 100),
      trv_opening_percent |-> IF zone.trv_entity_id # NO_TRV
                              THEN RRound(RInt(zone.trv_opening_percent), 10)
                              ELSE NONE ]

\* mutant: the export refreshes the PID components of every zone first
get_controller_stateRefresh(zs) ==
    LET fresh == [z \in DOMAIN zs |-> calculate_pid_output(zs[z], 0)]
    IN [zones |-> fresh,
        value |-> [zones |-> [i \in 1..Len(ZoneOrder) |->
                                [entity_id |-> ZoneOrder[i],
                                 state |-> export_pid_state(fresh[ZoneOrder[i]])]],
                   zone_count |-> Len(ZoneOrder)]]

\* MasterController.get_controller_state: the zones afterwards and the
\* dictionary returned
get_controller_state(zs) ==
    [zones |-> zs,
     value |-> [zones |-> [i \in 1..Len(ZoneOrder) |->
                             [entity_id |-> ZoneOrder[i],
                              state |-> export_pid_state(zs[ZoneOrder[i]])]],
                zone_count |-> Len(ZoneOrder)]]

\* MasterController.get_zone_state: the zones afterwards and the value
\* returned
get_zone_state(zs, entity_id) ==
    [zones |-> zs,
     value |-> IF entity_id \in DOMAIN zs THEN export_pid_state(zs[entity_id])
               ELSE NONE]

\* ------------------------------------------------------------------------
\* Platform setup (climate.py)
\* ------------------------------------------------------------------------
\* the zones of a controller that was never created
NO_CONTROLLER == <<>>

\* mutant: the controller is created whatever the zone list
async_setup_platformNoCheck(zone_configs) ==
    [started |-> TRUE, zones |-> NewController(zone_configs), log |-> {}]

\* async_setup_platform for a configuration that has a "zones" entry: the
\* controller's zones, whether it was started, the log lines
async_setup_platform(zone_configs) ==
    IF DOMAIN zone_configs = {}
    THEN [started |-> FALSE, zones |-> NO_CONTROLLER, log |-> {"no_zones"}]
    ELSE [started |-> TRUE, zones |-> NewController(zone_configs), log |-> {}]

\* ------------------------------------------------------------------------
\* Inputs
\* ------------------------------------------------------------------------
Heating(cur, tgt) == ClimateState(Num(cur), Num(tgt), "heating")
Idle(cur, tgt) == ClimateState(Num(cur), Num(tgt), "idle")

\* events of the arbitration runs: <<entity_id, new_state>>
ZoneEvents ==
    {<<"climate.z1", Heating(17, 20)>>, <<"climate.z1", Heating(23, 20)>>,
     <<"climate.z1", Idle(17, 20)>>, <<"climate.z1", NoState>>,
     <<"climate.z1", ClimateState(Num(17), BAD, "heating")>>,
     <<"climate.z2", Heating(17, 20)>>, <<"climate.z2", Heating(10, 20)>>,
     <<"climate.z2", Idle(17, 20)>>,
     <<"climate.z2", ClimateState(BAD, Num(20), "heating")>>,
     <<"climate.z3", Heating(17, 20)>>, <<"climate.z3", Heating(23, 20)>>,
     <<"climate.z3", Idle(17, 20)>>}
TrvEvents ==
    {<<"number.v1", NumberState(Num(25))>>, <<"number.v2", NumberState(Num(50))>>,
     <<"number.v2", NumberState(BAD)>>}
UnknownEvents == {<<UNKNOWN_ENTITY, NumberState(Num(50))>>}
Elapsed == {0, 2000}

\* observations of the single-zone runs
PidZone == "climate.z1"
PidStates ==
    {Heating(17, 20), Heating(23, 20), Idle(17, 20), Heating(10, 90),
     Heating(17, 0), Idle(17, 0), Heating(17, -5),
     ClimateState(MISSING, Num(20), "missing")}
Drifts == {0, 1}

\* the zone and the valve of the valve runs, the observations of the zone and
\* the states the valve entity reports (float(new_state.state))
ValveZone == "climate.z1"
ValveEntity == "number.v1"
ValveZoneStates == {Heating(17, 20), Heating(18, 20), Heating(23, 20), Idle(17, 20)}
ValveOpenings == {Num(0), Num(25), Num(50), Num(100), Num(150), Num(-10)}

\* clock runs: time.time() may step back between two events
ClockStates == {Heating(17, 20), Heating(23, 20), Idle(17, 20)}
ClockJumps == {-1000, 0, 2000}

\* setup runs: the "zones" entry of the platform configuration (an empty
\* list among them) and the events that follow
NoZoneConfigs == [z \in {} |-> [priority |-> 0, trv_entity_id |-> NO_TRV]]
SetupConfigs == {NoZoneConfigs, ConfigA, ConfigB}
\* mode runs: observations of PidZone with every kind of hvac_action (absent
\* and a string the code does not know among them), two that raise and are
\* discarded, and one without current_temperature
ModeStates ==
    {Heating(17, 20), Idle(17, 20),
     ClimateState(Num(17), Num(20), "cooling"), ClimateState(Num(17), Num(20), "off"),
     ClimateState(Num(17), Num(20), "missing"), ClimateState(Num(17), Num(20), "Heating"),
     ClimateState(BAD, Num(20), "heating"), ClimateState(Num(17), BAD, "idle"),
     ClimateState(MISSING, Num(20), "heating"), NoState}

\* paired runs: what both zones of the pair observe and what both valves
\* report
PairStates == {Heating(17, 20), Heating(18, 20), Heating(23, 20), Idle(17, 20),
               Heating(10, 90)}
PairOpenings == {Num(0), Num(25), Num(50), Num(100)}

\* tie runs: observations that make the demand metrics of several zones equal
TieEvents ==
    {<<"climate.z1", Heating(17, 20)>>, <<"climate.z1", Heating(18, 20)>>,
     <<"climate.z1", Idle(17, 20)>>,
     <<"climate.z2", Heating(17, 20)>>, <<"climate.z2", Heating(16, 20)>>,
     <<"climate.z3", Heating(17, 20)>>, <<"climate.z3", Heating(16, 20)>>,
     <<"climate.z3", Idle(17, 20)>>}
TieOpenings == {Num(50), Num(100)}

\* failure runs: the events after which the service call returns or raises
FailEvents ==
    {<<"climate.z1", Heating(17, 20)>>, <<"climate.z1", Heating(18, 20)>>,
     <<"climate.z1", Idle(17, 20)>>, <<"climate.z2", Heating(10, 20)>>,
     <<"number.v1", NumberState(Num(25))>>}

\* drift runs: observations of three zones with the clock advancing or not
\* between the zone update and the recalculation
DriftEvents ==
    {<<"climate.z1", Heating(17, 20)>>, <<"climate.z1", Heating(18, 20)>>,
     <<"climate.z2", Heating(10, 20)>>, <<"climate.z2", Idle(17, 20)>>,
     <<"climate.z3", Heating(17, 20)>>}

\* PID runs: the fields of PidZone that calculate_pid_output reads and the
\* time_delta it is called with
CalcErrors == {-3, 0, 2, 3}
CalcLastErrors == {-3, 0, 1}
CalcIntegrals == {-10000, 0, 50, 10000}
CalcDeltas == {-5, 0, 10, 2000}

\* export runs: the events, and the export calls made between them
\* (get_controller_state, or get_zone_state of an entity id)
ExportEvents ==
    {<<"climate.z1", Heating(17, 20)>>, <<"climate.z1", Heating(23, 20)>>,
     <<"number.v1", NumberState(Num(25))>>}
GET_CONTROLLER_STATE == "get_controller_state"
ExportCalls == {GET_CONTROLLER_STATE, "climate.z1", "climate.z3", UNKNOWN_ENTITY}
NO_SNAPSHOT == <<>>
NoSnapshots == [c \in ExportCalls |-> NO_SNAPSHOT]

AsyncEvents ==
    {<<"climate.z1", Heating(17, 20)>>, <<"climate.z1", Idle(17, 20)>>,
     <<"climate.z2", Heating(10, 20)>>, <<"number.v1", NumberState(Num(25))>>}
SetupEvents ==
    {<<"climate.z1", Heating(17, 20)>>, <<"climate.z2", Heating(10, 20)>>,
     <<"climate.z1", Idle(17, 20)>>, <<"number.v2", NumberState(Num(50))>>}

\* ------------------------------------------------------------------------
\* State
\* ------------------------------------------------------------------------
VARIABLES
    zones,            \* MasterController.zones: entity id -> ZoneWrapper
    now,              \* the reading of time.time()
    sent,             \* values passed to number.set_value by the last handler
    max_demand_zone,  \* the winner of the last recalculation
    log,              \* log lines of the last handler
    event,            \* the event of the last handler and its clock readings
    handled,          \* events handled so far
    emitted,          \* actuator calls made so far
    started,          \* async_start_listening has registered the handler
    inflight,         \* the log lines still to be written by the handlers
                      \* suspended in the actuator service call
    snapshot,         \* per export call, what it returned since the last event
    raised            \* the actuator service call of the last handler raised

vars == <<zones, now, sent, max_demand_zone, log, event, handled, emitted,
          started, inflight, snapshot, raised>>

InitWith(cfgs) ==
    /\ zones = NewController(cfgs)
    /\ now = ClockStart
    /\ sent = <<>>
    /\ max_demand_zone = NO_ZONE
    /\ log = {}
    /\ event = [entity_id |-> NO_ZONE, new_state |-> NoState,
                time_now |-> 0, time_arb |-> 0]
    /\ handled = 0
    /\ emitted = 0
    /\ started = TRUE
    /\ inflight = <<>>
    /\ snapshot = NoSnapshots
    /\ raised = FALSE

Init == \E cfgs \in ZoneConfigs : InitWith(cfgs)

\* the lines _calculate_and_command logs after the actuator call
ResultLines == {"boiler_on", "boiler_off"}

\* mutant: a call that raised is made a second time
RunHandlerRetry(entity_id, new_state, elapsed, drift, suspends, raises) ==
    /\ started
    /\ handled < MaxEvents
    /\ \E r \in {async_hvac_demand_change(zones, entity_id, new_state,
                                          now + elapsed, now + elapsed + drift)} :
          /\ zones' = r.zones
          /\ sent' = IF raises THEN r.sent \o r.sent ELSE r.sent
          /\ max_demand_zone' = r.max_demand_zone
          /\ log' = IF suspends THEN r.log \ ResultLines ELSE r.log
          /\ inflight' = IF suspends /\ ~raises
                         THEN Append(inflight, r.log \cap ResultLines)
                         ELSE inflight
          /\ emitted' = emitted + (IF raises THEN 2 ELSE 1) * Len(r.sent)
          /\ event' = [entity_id |-> entity_id, new_state |-> new_state,
                       time_now |-> now + elapsed,
                       time_arb |-> now + elapsed + drift]
          /\ now' = now + elapsed + drift
    /\ handled' = handled + 1
    /\ snapshot' = NoSnapshots
    /\ raised' = raises
    /\ UNCHANGED started

\* one run of _async_hvac_demand_change for an event that arrives elapsed
\* seconds after the previous one; the clock advances by drift between the
\* zone update and the recalculation.  The handler can be suspended only in
\* hass.services.async_call, its one await of something other than its own
\* coroutines: if it is (suspends), the lines it logs afterwards wait in
\* inflight.  If the call raises (raises) the exception leaves
\* async_set_opentherm_flow_temp, _calculate_and_command and the handler,
\* none of which catches it: the lines after the call are never logged.
RunHandler(entity_id, new_state, elapsed, drift, suspends, raises) ==
    /\ started
    /\ handled < MaxEvents
    /\ \E r \in {async_hvac_demand_change(zones, entity_id, new_state,
                                          now + elapsed, now + elapsed + drift)} :
          /\ zones' = r.zones
          /\ sent' = r.sent
          /\ max_demand_zone' = r.max_demand_zone
          /\ log' = IF suspends \/ raises THEN r.log \ ResultLines ELSE r.log
          /\ inflight' = IF suspends /\ ~raises
                         THEN Append(inflight, r.log \cap ResultLines)
                         ELSE inflight
          /\ emitted' = emitted + Len(r.sent)
          /\ event' = [entity_id |-> entity_id, new_state |-> new_state,
                       time_now |-> now + elapsed,
                       time_arb |-> now + elapsed + drift]
          /\ now' = now + elapsed + drift
    /\ handled' = handled + 1
    /\ snapshot' = NoSnapshots
    /\ raised' = raises
    /\ UNCHANGED started

\* a run whose service call returns without suspending
Handle(entity_id, new_state, elapsed, drift) ==
    RunHandler(entity_id, new_state, elapsed, drift, FALSE, FALSE)

ZoneEvent == \E e \in ZoneEvents, d \in Elapsed : Handle(e[1], e[2], d, 0)

TrvEvent == \E e \in TrvEvents, d \in Elapsed : Handle(e[1], e[2], d, 0)

UnknownEvent == \E e \in UnknownEvents, d \in Elapsed : Handle(e[1], e[2], d, 0)

Next == ZoneEvent \/ TrvEvent \/ UnknownEvent

Spec == Init /\ [][Next]_vars

\* single-zone runs: every observation goes to PidZone
InitPid == InitWith(ConfigA)

PidEvent ==
    \E st \in PidStates, d \in Elapsed, drift \in Drifts : Handle(PidZone, st, d, drift)

NextPid == PidEvent

SpecPid == InitPid /\ [][NextPid]_vars

\* valve runs: observations of ValveZone and of its valve
InitTrv == InitWith(ConfigA)

ValveZoneEvent == \E st \in ValveZoneStates, d \in Elapsed : Handle(ValveZone, st, d, 0)

ValveEvent ==
    \E v \in ValveOpenings, d \in Elapsed : Handle(ValveEntity, NumberState(v), d, 0)

NextTrv == ValveZoneEvent \/ ValveEvent

SpecTrv == InitTrv /\ [][NextTrv]_vars

\* clock runs: observations of PidZone under a wall clock that is positive
\* but not monotonic
InitClock == InitWith(ConfigA)

ClockEvent ==
    \E st \in ClockStates, d \in ClockJumps :
        /\ now + d > 0
        /\ Handle(PidZone, st, d, 0)

NextClock == ClockEvent

SpecClock == InitClock /\ [][NextClock]_vars

\* setup runs: the platform is set up once, then events arrive if the
\* controller was started
InitSetup ==
    /\ zones = NO_CONTROLLER
    /\ now = ClockStart
    /\ sent = <<>>
    /\ max_demand_zone = NO_ZONE
    /\ log = {}
    /\ event = [entity_id |-> NO_ZONE, new_state |-> NoState,
                time_now |-> 0, time_arb |-> 0]
    /\ handled = 0
    /\ emitted = 0
    /\ started = FALSE
    /\ inflight = <<>>
    /\ snapshot = NoSnapshots
    /\ raised = FALSE

Setup ==
    /\ ~started /\ log = {}
    /\ \E zone_configs \in SetupConfigs :
          \E r \in {async_setup_platform(zone_configs)} :
             /\ zones' = r.zones
             /\ started' = r.started
             /\ log' = r.log
    /\ UNCHANGED <<now, sent, max_demand_zone, event, handled, emitted, inflight,
                   snapshot, raised>>

SetupEvent == \E e \in SetupEvents, d \in Elapsed : Handle(e[1], e[2], d, 0)

NextSetup == Setup \/ SetupEvent

SpecSetup == InitSetup /\ [][NextSetup]_vars

\* concurrent runs: every handler is suspended in the service call and
\* resumed at some later time, in any order
InitAsync == InitWith(ConfigA)

AsyncEvent ==
    \E e \in AsyncEvents, d \in Elapsed : RunHandler(e[1], e[2], d, 0, TRUE, FALSE)

AsyncResume ==
    /\ \E i \in 1..Len(inflight) :
          /\ log' = inflight[i]
          /\ inflight' = SubSeq(inflight, 1, i - 1) \o SubSeq(inflight, i + 1, Len(inflight))
    /\ UNCHANGED <<zones, now, sent, max_demand_zone, event, handled, emitted, started,
                   snapshot, raised>>

NextAsync == AsyncEvent \/ AsyncResume

SpecAsync == InitAsync /\ [][NextAsync]_vars

\* mode runs: observations of PidZone and updates of its valve
InitMode == InitWith(ConfigA)

ModeEvent == \E st \in ModeStates, d \in Elapsed : Handle(PidZone, st, d, 0)

ModeValveEvent == Handle(ValveEntity, NumberState(Num(50)), 0, 0)

NextMode == ModeEvent \/ ModeValveEvent

SpecMode == InitMode /\ [][NextMode]_vars

\* paired runs: every observation is delivered to climate.z1 and then to
\* climate.z2, every valve report to number.v1 and then to number.v2, in two
\* handler runs at the same clock reading
InitPair == InitWith(ConfigPair)

HandlePair(first, second, new_state, elapsed) ==
    /\ started
    /\ handled < MaxEvents
    /\ \E r1 \in {async_hvac_demand_change(zones, first, new_state,
                                           now + elapsed, now + elapsed)} :
          \E r2 \in {async_hvac_demand_change(r1.zones, second, new_state,
                                               now + elapsed, now + elapsed)} :
             /\ zones' = r2.zones
             /\ sent' = r2.sent
             /\ max_demand_zone' = r2.max_demand_zone
             /\ log' = r2.log
             /\ emitted' = emitted + Len(r1.sent) + Len(r2.sent)
    /\ event' = [entity_id |-> second, new_state |-> new_state,
                 time_now |-> now + elapsed, time_arb |-> now + elapsed]
    /\ now' = now + elapsed
    /\ handled' = handled + 2
    /\ snapshot' = NoSnapshots
    /\ UNCHANGED <<started, inflight, raised>>

PairZoneEvent ==
    \E st \in PairStates, d \in Elapsed : HandlePair("climate.z1", "climate.z2", st, d)

PairValveEvent ==
    \E v \in PairOpenings, d \in Elapsed :
        HandlePair("number.v1", "number.v2", NumberState(v), d)

NextPair == PairZoneEvent \/ PairValveEvent

SpecPair == InitPair /\ [][NextPair]_vars

\* tie runs: the controller of ConfigC receives observations and reports of
\* the valve of climate.z1
InitTie == InitWith(ConfigC)

TieZoneEvent == \E e \in TieEvents, d \in Elapsed : Handle(e[1], e[2], d, 0)

TieValveEvent == \E v \in TieOpenings : Handle("number.v1", NumberState(v), 0, 0)

NextTie == TieZoneEvent \/ TieValveEvent

SpecTie == InitTie /\ [][NextTie]_vars

\* failure runs: the service call of any handler may raise (a timeout, a
\* missing service)
InitFail == InitWith(ConfigA)

FailEventReturns == \E e \in FailEvents, d \in Elapsed : Handle(e[1], e[2], d, 0)

FailEventRaises ==
    \E e \in FailEvents, d \in Elapsed : RunHandler(e[1], e[2], d, 0, FALSE, TRUE)

NextFail == FailEventReturns \/ FailEventRaises

SpecFail == InitFail /\ [][NextFail]_vars

\* drift runs
InitDrift == InitWith(ConfigA)

DriftEvent ==
    \E e \in DriftEvents, d \in Elapsed, drift \in Drifts : Handle(e[1], e[2], d, drift)

NextDrift == DriftEvent

SpecDrift == InitDrift /\ [][NextDrift]_vars

\* PID runs: calculate_pid_output is called on a zone in a given state;
\* event holds the argument, time_delta = time_arb - time_now
InitCalc ==
    /\ \E e \in CalcErrors, le \in CalcLastErrors, i \in CalcIntegrals :
          zones = [NewController(ConfigA) EXCEPT
                      ![PidZone].current_error = e,
                      ![PidZone].last_error = le,
                      ![PidZone].pid_integral_sum = i]
    /\ now = ClockStart
    /\ sent = <<>>
    /\ max_demand_zone = NO_ZONE
    /\ log = {}
    /\ event = [entity_id |-> NO_ZONE, new_state |-> NoState,
                time_now |-> 0, time_arb |-> 0]
    /\ handled = 0
    /\ emitted = 0
    /\ started = TRUE
    /\ inflight = <<>>
    /\ snapshot = NoSnapshots
    /\ raised = FALSE

CalcPid ==
    /\ handled < MaxEvents
    /\ \E time_delta \in CalcDeltas :
          /\ zones' = [zones EXCEPT
                          ![PidZone] = calculate_pid_output(zones[PidZone], time_delta)]
          /\ event' = [entity_id |-> PidZone, new_state |-> NoState,
                       time_now |-> 0, time_arb |-> time_delta]
    /\ handled' = handled + 1
    /\ UNCHANGED <<now, sent, max_demand_zone, log, emitted, started, inflight, snapshot,
                   raised>>

NextCalc == CalcPid

SpecCalc == InitCalc /\ [][NextCalc]_vars

\* export runs: the state is exported any number of times between events
InitExport == InitWith(ConfigA)

ExportEvent == \E e \in ExportEvents, d \in Elapsed : Handle(e[1], e[2], d, 0)

ExportState ==
    /\ \E r \in {get_controller_state(zones)} :
          /\ zones' = r.zones
          /\ snapshot' = [snapshot EXCEPT ![GET_CONTROLLER_STATE] = <<r.value>>]
    /\ UNCHANGED <<now, sent, max_demand_zone, log, event, handled, emitted, started,
                   inflight, raised>>

ExportZone ==
    /\ \E entity_id \in ExportCalls \ {GET_CONTROLLER_STATE} :
          \E r \in {get_zone_state(zones, entity_id)} :
             /\ zones' = r.zones
             /\ snapshot' = [snapshot EXCEPT ![entity_id] = <<r.value>>]
    /\ UNCHANGED <<now, sent, max_demand_zone, log, event, handled, emitted, started,
                   inflight, raised>>

NextExport == ExportEvent \/ ExportState \/ ExportZone

SpecExport == InitExport /\ [][NextExport]_vars

\* ------------------------------------------------------------------------
\* Vocabulary of the properties
\* ------------------------------------------------------------------------
HasCommand == Len(sent) > 0
Command == sent[1]
HasWinner == max_demand_zone # NO_ZONE
Winner == zones[max_demand_zone]

DemandingLow == {z \in ZoneIds : zones[z].is_demanding_heat /\ zones[z].priority <= 5}
DemandingHigh == {z \in ZoneIds : zones[z].is_demanding_heat /\ zones[z].priority > 5}
EligibleZones ==
    DemandingHigh \cup (IF Cardinality(DemandingLow) >= 2 THEN DemandingLow ELSE {})

\* the last handler applied an observation to a zone
LastApplied ==
    /\ event.entity_id \in ZoneIds
    /\ event.new_state.present
    /\ event.new_state.current_temperature.kind # "bad"
    /\ event.new_state.temperature.kind # "bad"

\* C1: every command handed to the actuator lies in [5, 80]
C1_CommandInRange ==
    \A i \in 1..Len(sent) : 5 * sent[i][2] <= sent[i][1] /\ sent[i][1] <= 80 * sent[i][2]

\* a winner whose 40 + PID exceeds 80 was commanded as exactly 80
C1_Witness ==
    /\ HasWinner /\ HasCommand
    /\ RLess(RInt(80), RAdd(RInt(40), Winner.last_pid_output))
    /\ Command = <<80, 1>>

\* C2: a low-priority zone wins only if at least two low-priority zones
\* demand heat; one low-priority zone demanding alone commands 5
C2_LowPriorityNeedsTwo ==
    /\ (HasWinner /\ Winner.priority <= 5) => Cardinality(DemandingLow) >= 2
    /\ (HasCommand /\ Cardinality(DemandingLow) = 1 /\ DemandingHigh = {})
          => Command = <<5, 1>>

\* one low-priority zone with a positive error demands alone and 5 is sent
C2_Witness ==
    /\ HasCommand /\ Command = <<5, 1>>
    /\ DemandingHigh = {}
    /\ \E z \in ZoneIds : DemandingLow = {z} /\ zones[z].current_error > 0

\* C3: the winner is eligible, has a positive demand metric that no eligible
\* zone exceeds, and is never a zone last observed as not heating
C3_WinnerHasMaxDemand ==
    /\ HasWinner =>
          /\ max_demand_zone \in EligibleZones
          /\ RLess(RInt(0), get_demand_metric(Winner))
          /\ \A z \in EligibleZones :
                RLeq(get_demand_metric(zones[z]), get_demand_metric(Winner))
    /\ (LastApplied /\ GetHvacAction(event.new_state.hvac_action) # "heating")
          => max_demand_zone # event.entity_id

\* the winner beat another eligible zone that has a smaller positive demand
\* and comes later in the evaluation order
C3_Witness ==
    /\ max_demand_zone = "climate.z1"
    /\ \E z \in EligibleZones \ {"climate.z1"} :
          /\ RLess(RInt(0), get_demand_metric(zones[z]))
          /\ RLess(get_demand_metric(zones[z]), get_demand_metric(Winner))

\* C4: with no eligible zone of positive demand the command is exactly 5
C4_NoDemandCommandsMin ==
    (HasCommand /\ \A z \in EligibleZones : ~RLess(RInt(0), get_demand_metric(zones[z])))
        => Command = <<5, 1>>

\* a heating zone at or above its target is the only eligible zone
C4_Witness ==
    /\ HasCommand /\ Command = <<5, 1>>
    /\ \E z \in ZoneIds : EligibleZones = {z} /\ zones[z].current_error <= 0

\* C5: whenever a winner exists the command is strictly above 5, so 5 is
\* commanded only when no eligible zone has a positive demand
C5_Original == (HasWinner /\ HasCommand) => RLess(RInt(5), Command)

\* what the code does guarantee: a winner is commanded the off value only
\* when its integral sum or its derivative term is negative
WinnerAtMinHasNegativeTerm ==
    (HasWinner /\ HasCommand) =>
        \/ RLess(RInt(5), Command)
        \/ Winner.pid_integral_sum < 0
        \/ Winner.last_pid_d[1] < 0

\* C6: every handled event makes exactly one actuator call, and the
\* arbitration behind it sees the zones as that event left them
C6_OneCommandPerEvent ==
    [][handled' = handled + 1 =>
          /\ emitted' = emitted + 1
          /\ Len(sent') = 1
          /\ max_demand_zone' = MaxDemand(zones').max_demand_zone]_vars

\* an unknown entity was handled after another event and a command went out
C6_Witness ==
    /\ event.entity_id = UNKNOWN_ENTITY
    /\ handled = 2 /\ emitted = 2 /\ Len(sent) = 1

\* the command the PID formula gives for the winner: clamp(n / d, 5, 80) with
\* n / d = 40 + e/2 + I/100 + (e - le)/(10 dt)
WinnerDelta ==
    IF Winner.last_update_time # 0 THEN event.time_arb - Winner.last_update_time ELSE 0
WinnerNum ==
    IF WinnerDelta > 0
    THEN 4000 * WinnerDelta + 50 * Winner.current_error * WinnerDelta
         + Winner.pid_integral_sum * WinnerDelta
         + 10 * (Winner.current_error - Winner.last_error)
    ELSE 4000 + 50 * Winner.current_error + Winner.pid_integral_sum
WinnerDen == IF WinnerDelta > 0 THEN 100 * WinnerDelta ELSE 100
CommandFollowsPid ==
    (HasWinner /\ HasCommand) =>
        IF WinnerNum < 5 * WinnerDen THEN Command = <<5, 1>>
        ELSE IF WinnerNum > 80 * WinnerDen THEN Command = <<80, 1>>
        ELSE Command = Rat(WinnerNum, WinnerDen)

\* the first event of a fresh supervisor: a heating observation with error e
\* for a high-priority zone
FreshHeating(e) ==
    /\ handled = 1 /\ LastApplied
    /\ zones[event.entity_id].priority > 5
    /\ event.new_state.hvac_action = "heating"
    /\ event.new_state.temperature.kind = "num"
    /\ event.new_state.current_temperature.kind = "num"
    /\ event.new_state.temperature.val - event.new_state.current_temperature.val = e

\* C7 as stated: the command follows the PID formula; a fresh error of 3
\* commands 41.5 and a fresh error of 80 commands 80
C7_Original ==
    /\ CommandFollowsPid
    /\ FreshHeating(3) => Command = <<83, 2>>
    /\ FreshHeating(80) => Command = <<80, 1>>

\* C7 amended: a fresh error of 3 commands 41.5 when the clock has not
\* advanced between the update and the arbitration, and 41.5 + 0.3 /
\* time_delta (at most 80) when it has advanced by time_delta
C7_CommandFollowsPid ==
    /\ CommandFollowsPid
    /\ (FreshHeating(3) /\ event.time_arb <= event.time_now) => Command = <<83, 2>>
    /\ (FreshHeating(3) /\ event.time_arb > event.time_now) =>
          Command = RMin(RInt(80), RAdd(<<83, 2>>,
                                        Rat(3, 10 * (event.time_arb - event.time_now))))
    /\ FreshHeating(80) => Command = <<80, 1>>

\* a fresh error of 3 with the clock one second on at the arbitration
C7_Witness == FreshHeating(3) /\ event.time_arb > event.time_now /\ Command = <<209, 5>>

\* C8: the integral sum of every zone stays within [-10000, 10000]
C8_IntegralBounded ==
    \A z \in ZoneIds :
        zones[z].pid_integral_sum >= -10000 /\ zones[z].pid_integral_sum <= 10000

\* an error of 80 held for 2000 seconds left the integral at the limit
C8_Witness ==
    /\ LastApplied /\ event.new_state = Heating(10, 90)
    /\ zones[event.entity_id].last_error = 80
    /\ zones[event.entity_id].pid_integral_sum = 10000

\* the step is a handler run that applied an observation to zone z, which
\* had been observed before, with a target other than the one z held
TargetChangeStep(z) ==
    /\ handled' = handled + 1
    /\ event'.entity_id = z
    /\ event'.new_state.present
    /\ event'.new_state.current_temperature.kind # "bad"
    /\ event'.new_state.temperature.kind # "bad"
    /\ zones[z].last_update_time # 0
    /\ zones'[z].target_temp # zones[z].target_temp

Clamp10000(x) == IF x > 10000 THEN 10000 ELSE IF x < -10000 THEN -10000 ELSE x

IntegralRestarted(z) ==
    zones'[z].pid_integral_sum =
        IF zones'[z].is_demanding_heat
        THEN Clamp10000(zones'[z].current_error
                        * (event'.time_now - zones[z].last_update_time))
        ELSE 0

\* C9: an observation that changes the target discards the
\* integral; afterwards it is clamp(new_error * time_delta) if the zone is
\* heating and 0 if it is not
C9_Original ==
    [][\A z \in ZoneIds : TargetChangeStep(z) => IntegralRestarted(z)]_vars

\* the same for a previous target above 0, which the code does satisfy
IntegralRestartsOnPositiveTargetChange ==
    [][\A z \in ZoneIds :
          (TargetChangeStep(z) /\ zones[z].target_temp > 0) => IntegralRestarted(z)]_vars

\* C10: the setpoint-change reset fires on every observation that
\* changes the target of a zone observed before, whatever the earlier target
\* was, and never on the first observation of a zone
C10_Original ==
    [][\A z \in ZoneIds :
          /\ TargetChangeStep(z) => "target_changed" \in log'
          /\ (handled' = handled + 1 /\ event'.entity_id = z
              /\ zones[z].last_update_time = 0) => "target_changed" \notin log']_vars

\* the same for a previous target above 0, which the code does satisfy
ResetOnPositiveTargetChange ==
    [][\A z \in ZoneIds :
          (TargetChangeStep(z) /\ zones[z].target_temp > 0)
              => "target_changed" \in log']_vars

\* C11: after an observation that changes the target of a zone whose
\* previous target was set (above 0), last_error of the zone is 0
C11_Original ==
    [][\A z \in ZoneIds :
          (TargetChangeStep(z) /\ zones[z].target_temp > 0)
              => zones'[z].last_error = 0]_vars

\* what the code leaves in last_error after such an observation: the error
\* the zone held before it if the observation reports heating, 0 otherwise
LastErrorAfterPositiveTargetChange ==
    [][\A z \in ZoneIds :
          (TargetChangeStep(z) /\ zones[z].target_temp > 0)
              => zones'[z].last_error =
                    IF zones'[z].is_demanding_heat THEN zones[z].current_error
                    ELSE 0]_vars

\* the fields of a zone that the control law reads
ControlState(zone) ==
    <<zone.current_temp, zone.target_temp, zone.current_error, zone.last_error,
      zone.pid_integral_sum, zone.is_demanding_heat, zone.last_update_time,
      zone.trv_opening_percent>>

\* a zone observation with a temperature that is not a number, or a valve
\* observation with a percentage that is not a number
Malformed(e) ==
    /\ e.new_state.present
    /\ \/ /\ e.entity_id \in ZoneIds
          /\ \/ e.new_state.current_temperature.kind = "bad"
             \/ e.new_state.temperature.kind = "bad"
       \/ /\ \E z \in ZoneIds : zones[z].trv_entity_id = e.entity_id
          /\ e.new_state.state.kind = "bad"

\* C12: a malformed observation leaves the control state of every zone
\* unchanged, and the arbitration still runs over the zones and sends one
\* command
C12_MalformedLeavesState ==
    [][(handled' = handled + 1 /\ Malformed(event')) =>
          /\ \A z \in ZoneIds : ControlState(zones'[z]) = ControlState(zones[z])
          /\ Len(sent') = 1 /\ emitted' = emitted + 1
          /\ max_demand_zone' = MaxDemand(zones).max_demand_zone]_vars

\* a zone observation with a target that is not a number was handled while
\* another zone kept the boiler on
C12_Witness ==
    /\ Malformed(event) /\ event.new_state.temperature.kind = "bad"
    /\ HasWinner /\ HasCommand /\ RLess(RInt(5), Command)
    /\ zones[event.entity_id].last_update_time = 0

\* the step is a handler run for an observation of zone z in which
\* current_temperature or temperature is absent and neither is malformed
MissingTemperatureStep(z) ==
    /\ handled' = handled + 1
    /\ event'.entity_id = z
    /\ event'.new_state.present
    /\ event'.new_state.current_temperature.kind # "bad"
    /\ event'.new_state.temperature.kind # "bad"
    /\ \/ event'.new_state.current_temperature.kind = "missing"
       \/ event'.new_state.temperature.kind = "missing"

\* C13: a zone observation in which current_temperature or temperature is
\* missing is discarded; it changes no field of the zone
C13_Original ==
    [][\A z \in ZoneIds :
          MissingTemperatureStep(z) =>
              /\ ControlState(zones'[z]) = ControlState(zones[z])
              /\ zones'[z].last_target_temp = zones[z].last_target_temp]_vars

\* what the code does with it: the absent temperature is read as 0 and the
\* observation is applied
MissingTemperatureReadAsZero ==
    [][\A z \in ZoneIds :
          MissingTemperatureStep(z) =>
              /\ zones'[z].last_update_time = event'.time_now
              /\ event'.new_state.current_temperature.kind = "missing"
                    => zones'[z].current_temp = 0
              /\ event'.new_state.temperature.kind = "missing"
                    => zones'[z].target_temp = 0]_vars

\* the step is a handler run for an entity that is neither a configured
\* zone nor the valve of one
UnknownEntityStep ==
    /\ handled' = handled + 1
    /\ event'.entity_id \notin ZoneIds
    /\ \A z \in ZoneIds : zones[z].trv_entity_id # event'.entity_id

\* C14: an observation of an entity that is neither a zone nor a valve
\* changes no zone's control state; the arbitration runs on the state as it
\* was and one command is sent
C14_UnknownEntityChangesNothing ==
    [][UnknownEntityStep =>
          /\ \A z \in ZoneIds : ControlState(zones'[z]) = ControlState(zones[z])
          /\ max_demand_zone' = MaxDemand(zones).max_demand_zone
          /\ sent' = calculate_and_command(zones, event'.time_arb).sent
          /\ Len(sent') = 1 /\ emitted' = emitted + 1]_vars

\* an unknown entity was handled while a zone with a throttled valve kept
\* the boiler on
C14_Witness ==
    /\ event.entity_id = UNKNOWN_ENTITY
    /\ HasWinner /\ HasCommand /\ RLess(RInt(5), Command)
    /\ Winner.trv_opening_percent < 100

\* C15: the demand metric of a zone is 0 when the zone is not demanding
\* heat, 0 when its error is 0 or negative whatever the mode and the valve
\* opening, and never negative
C15_DemandZeroOrPositive ==
    \A z \in ZoneIds :
        /\ ~zones[z].is_demanding_heat => get_demand_metric(zones[z]) = <<0, 1>>
        /\ zones[z].current_error <= 0 => get_demand_metric(zones[z]) = <<0, 1>>
        /\ get_demand_metric(zones[z])[1] >= 0
        /\ get_demand_metric(zones[z])[2] > 0

\* a heating zone above its target behind a throttled valve has metric 0
C15_Witness ==
    \E z \in ZoneIds :
        /\ zones[z].is_demanding_heat /\ zones[z].current_error < 0
        /\ zones[z].trv_opening_percent > 0 /\ zones[z].trv_opening_percent < 100
        /\ get_demand_metric(zones[z]) = <<0, 1>>

ClosedValveDemand ==
    /\ zones[ValveZone].is_demanding_heat
    /\ zones[ValveZone].current_error = 3
    /\ zones[ValveZone].trv_opening_percent = 0
    /\ get_demand_metric(zones[ValveZone]) = <<3, 1>>

\* the step is a handler run that applied an observation with numeric
\* temperatures to zone z
AppliedStep(z) ==
    /\ handled' = handled + 1
    /\ event'.entity_id = z
    /\ event'.new_state.present
    /\ event'.new_state.current_temperature.kind = "num"
    /\ event'.new_state.temperature.kind = "num"

\* the error of the observation of the step
ObservedError ==
    event'.new_state.temperature.val - event'.new_state.current_temperature.val

\* C17: a heating observation that keeps the target adds new_error *
\* time_delta to the integral before the clamp, time_delta being the time
\* since the zone's previous observation; the first observation adds 0
C17_IntegralAccumulates ==
    [][\A z \in ZoneIds :
          (AppliedStep(z) /\ event'.new_state.hvac_action = "heating") =>
              /\ zones'[z].current_error = ObservedError
              /\ zones[z].last_update_time = 0
                    => zones'[z].pid_integral_sum = zones[z].pid_integral_sum
              /\ (zones[z].last_update_time # 0
                  /\ event'.new_state.temperature.val = zones[z].target_temp)
                    => zones'[z].pid_integral_sum =
                          Clamp10000(zones[z].pid_integral_sum
                                     + ObservedError
                                       * (event'.time_now - zones[z].last_update_time))
          ]_vars

\* an error of -3 held for 2000 seconds took the integral from 0 to -6000
C17_Witness ==
    /\ LastApplied /\ event.new_state = Heating(23, 20)
    /\ zones[event.entity_id].last_error = -3
    /\ zones[event.entity_id].pid_integral_sum = -6000

\* C18: an observation that reports a mode other than heating and keeps the
\* target leaves the integral and last_error as they were and updates
\* current_error, current_temp and last_update_time
C18_NonHeatingFreezesIntegral ==
    [][\A z \in ZoneIds :
          (AppliedStep(z) /\ event'.new_state.hvac_action # "heating"
           /\ event'.new_state.temperature.val = zones[z].target_temp) =>
              /\ zones'[z].pid_integral_sum = zones[z].pid_integral_sum
              /\ zones'[z].last_error = zones[z].last_error
              /\ zones'[z].current_error = ObservedError
              /\ zones'[z].current_temp = event'.new_state.current_temperature.val
              /\ zones'[z].last_update_time = event'.time_now]_vars

\* an idle observation 3 below the target found the integral at -6000 and
\* last_error at -3 and left them there
C18_Witness ==
    /\ LastApplied /\ event.new_state = Idle(17, 20)
    /\ ~zones[event.entity_id].is_demanding_heat
    /\ zones[event.entity_id].pid_integral_sum = -6000
    /\ zones[event.entity_id].last_error = -3
    /\ zones[event.entity_id].current_error = 3
    /\ zones[event.entity_id].last_update_time = event.time_now

\* C19: a heating observation applied at a time earlier than the zone's
\* last_update_time contributes nothing to the integral
C19_Original ==
    [][\A z \in ZoneIds :
          (AppliedStep(z) /\ event'.new_state.hvac_action = "heating"
           /\ zones[z].last_update_time # 0
           /\ event'.time_now < zones[z].last_update_time
           /\ event'.new_state.temperature.val = zones[z].target_temp)
              => zones'[z].pid_integral_sum = zones[z].pid_integral_sum]_vars

\* what the code does with it: the negative time_delta is multiplied in
NegativeTimeDeltaAccumulates ==
    [][\A z \in ZoneIds :
          (AppliedStep(z) /\ event'.new_state.hvac_action = "heating"
           /\ zones[z].last_update_time # 0
           /\ event'.time_now < zones[z].last_update_time
           /\ event'.new_state.temperature.val = zones[z].target_temp)
              => zones'[z].pid_integral_sum =
                    Clamp10000(zones[z].pid_integral_sum
                               + ObservedError
                                 * (event'.time_now - zones[z].last_update_time))
          ]_vars

\* C20: with two or more low-priority zones demanding heat and no
\* high-priority zone demanding, the low-priority zone with the largest
\* positive demand metric is the winner and the command follows its PID
C20_LowPriorityPairWins ==
    (/\ HasCommand /\ Cardinality(DemandingLow) >= 2 /\ DemandingHigh = {}
     /\ \E z \in DemandingLow : RLess(RInt(0), get_demand_metric(zones[z])))
        => /\ HasWinner
           /\ max_demand_zone \in DemandingLow
           /\ RLess(RInt(0), get_demand_metric(Winner))
           /\ \A z \in DemandingLow :
                 RLeq(get_demand_metric(zones[z]), get_demand_metric(Winner))
           /\ CommandFollowsPid

\* two low-priority zones demand alone; the one with error 10 beat the one
\* with error 3 and the boiler is commanded above 5
C20_Witness ==
    /\ HasCommand /\ DemandingHigh = {}
    /\ DemandingLow = {"climate.z2", "climate.z3"}
    /\ max_demand_zone = "climate.z2"
    /\ zones["climate.z2"].current_error = 10
    /\ zones["climate.z3"].current_error = 3
    /\ RLess(RInt(5), Command)

C22_HandlersSeeConsistentSnapshot ==
    [][/\ handled' = handled + 1 =>
             \E d \in {DispatchEvent(zones, event'.entity_id, event'.new_state,
                                     event'.time_now)} :
                \E c \in {calculate_and_command(d.zones, event'.time_arb)} :
                   /\ \A z \in ZoneIds : ControlState(zones'[z]) = ControlState(d.zones[z])
                   /\ sent' = c.sent
                   /\ max_demand_zone' = c.max_demand_zone
                   /\ emitted' = emitted + 1
       /\ handled' = handled =>
             UNCHANGED <<zones, sent, max_demand_zone, emitted>>]_vars

\* a third handler selected a winner and commanded the boiler while two
\* earlier handlers were still suspended
C22_Witness ==
    /\ Len(inflight) = 3 /\ handled = 3
    /\ HasWinner /\ HasCommand /\ RLess(RInt(5), Command)
    /\ LastApplied /\ max_demand_zone # event.entity_id

\* C23: an export call changes no zone field and nothing else of the
\* controller, returns what the same call returned before if no event came
\* in between, and leaves the command of every later event as it would
\* have been
C23_ExportIsReadOnly ==
    [][(handled' = handled /\ snapshot' # snapshot) =>
          /\ zones' = zones
          /\ UNCHANGED <<now, sent, max_demand_zone, emitted, started>>
          /\ \A c \in ExportCalls :
                snapshot[c] # NO_SNAPSHOT => snapshot'[c] = snapshot[c]
          /\ \A e \in ExportEvents :
                async_hvac_demand_change(zones', e[1], e[2], now, now).sent
                    = async_hvac_demand_change(zones, e[1], e[2], now, now).sent]_vars

\* every export was taken after a run that left PID components behind, and the zone export is the zone's entry of the controller export
C23_Witness ==
    /\ \A c \in ExportCalls : snapshot[c] # NO_SNAPSHOT
    /\ snapshot[UNKNOWN_ENTITY] = <<NONE>>
    /\ snapshot[GET_CONTROLLER_STATE][1].zones[1].state = snapshot["climate.z1"][1]
    /\ snapshot["climate.z1"][1].pid_output = <<123, 2>>
    /\ zones["climate.z1"].last_pid_output = <<123, 2>>
    /\ snapshot["climate.z3"][1].trv_opening_percent = NONE

\* a configured priority brought into [0, 1] (tenths)
ClampedPriority(p) == IF p < 0 THEN 0 ELSE IF p > 10 THEN 10 ELSE p

\* C24: the priority of every zone is the configured one clamped into
\* [0, 1], and no observation, valve update or recalculation changes it
C24_PriorityClampedAndFixed ==
    /\ [](\E cfgs \in ZoneConfigs :
             \A z \in ZoneIds : zones[z].priority = ClampedPriority(cfgs[z].priority))
    /\ [][\A z \in ZoneIds : zones'[z].priority = zones[z].priority]_vars

\* the zone configured with 1.4 has priority 1 and the one configured with
\* -0.3 has priority 0 after the first was observed, had its valve moved
\* and won the recalculation
C24_Witness ==
    /\ zones["climate.z2"].priority = 10 /\ zones["climate.z3"].priority = 0
    /\ zones["climate.z2"].last_update_time # 0
    /\ zones["climate.z2"].trv_opening_percent = 50
    /\ max_demand_zone = "climate.z2"

\* the step is a handler run for a numeric state of the valve of zone z
ValveStep(z) ==
    /\ handled' = handled + 1
    /\ event'.entity_id = zones[z].trv_entity_id
    /\ event'.new_state.present
    /\ event'.new_state.state.kind = "num"

\* every field of a zone but the valve opening and the stored PID
\* components of the last recalculation
ZoneExceptValve(zone) ==
    <<zone.priority, zone.trv_entity_id, zone.current_temp, zone.target_temp,
      zone.last_target_temp, zone.current_error, zone.last_error,
      zone.pid_integral_sum, zone.is_demanding_heat, zone.last_update_time>>

\* C25: a valve update stores the reported percentage clamped into
\* [0, 100] and changes no other field of the zone; the opening of every
\* zone is always in [0, 100], and 100 for a zone that had no valve update
C25_ValveOpeningClamped ==
    /\ [](\A z \in ZoneIds :
             /\ zones[z].trv_opening_percent >= 0
             /\ zones[z].trv_opening_percent <= 100
             /\ (handled = 0 \/ zones[z].trv_entity_id # ValveEntity)
                   => zones[z].trv_opening_percent = 100)
    /\ [][\A z \in ZoneIds :
             ValveStep(z) =>
                /\ zones'[z].trv_opening_percent =
                      (IF event'.new_state.state.val < 0 THEN 0
                       ELSE IF event'.new_state.state.val > 100 THEN 100
                       ELSE event'.new_state.state.val)
                /\ ZoneExceptValve(zones'[z]) = ZoneExceptValve(zones[z])]_vars

\* a reported -10 left the valve of a heating zone at 0
C25_Witness ==
    /\ event.entity_id = ValveEntity /\ event.new_state.state = Num(-10)
    /\ zones[ValveZone].trv_opening_percent = 0
    /\ zones[ValveZone].is_demanding_heat /\ zones[ValveZone].current_error = 3

\* C26: calculate_pid_output(time_delta) yields P + I + D with
\* P = 0.5 * current_error, I = 0.01 * integral_sum, D = 0 for
\* time_delta <= 0 and 0.1 * (current_error - last_error) / time_delta
\* otherwise; error 2, last error 1, integral 50, time_delta 10 give 1.51
C26_PidOutput ==
    handled > 0 =>
        LET zone == zones[PidZone]
            time_delta == event.time_arb - event.time_now
            P == zone.last_pid_p
            I == zone.last_pid_i
            D == zone.last_pid_d
        IN /\ P[1] * 2 = zone.current_error * P[2]
           /\ I[1] * 100 = zone.pid_integral_sum * I[2]
           /\ time_delta <= 0 => D = <<0, 1>>
           /\ time_delta > 0 =>
                 D[1] * 10 * time_delta = (zone.current_error - zone.last_error) * D[2]
           /\ zone.last_pid_output = RAdd(RAdd(P, I), D)
           /\ (zone.current_error = 2 /\ zone.last_error = 1
               /\ zone.pid_integral_sum = 50 /\ time_delta = 10)
                 => zone.last_pid_output = <<151, 100>>

\* the example: P = 1, I = 0.5, D = 0.01 and the output 1.51
C26_Witness ==
    /\ handled > 0 /\ event.time_arb - event.time_now = 10
    /\ zones[PidZone].current_error = 2 /\ zones[PidZone].last_error = 1
    /\ zones[PidZone].pid_integral_sum = 50
    /\ zones[PidZone].last_pid_p = <<1, 1>>
    /\ zones[PidZone].last_pid_i = <<1, 2>>
    /\ zones[PidZone].last_pid_d = <<1, 100>>
    /\ zones[PidZone].last_pid_output = <<151, 100>>

\* a negative time_delta gives no derivative term
NegativeDeltaNoDerivative ==
    /\ handled > 0 /\ event.time_arb - event.time_now < 0
    /\ zones[PidZone].current_error # zones[PidZone].last_error
    /\ zones[PidZone].last_pid_d = <<0, 1>>

\* the step is a handler run whose observation the code applied to zone z
\* (the state is there and float() accepted both temperatures)
AppliedByCode(z) ==
    /\ handled' = handled + 1
    /\ event'.entity_id = z
    /\ event'.new_state.present
    /\ event'.new_state.current_temperature.kind # "bad"
    /\ event'.new_state.temperature.kind # "bad"

\* C27: a zone starts without demand; an applied observation leaves
\* is_demanding_heat true if it reports 'heating' and false for any other
\* mode (idle, cooling, off, none, an unknown string); a discarded
\* observation or an event of another entity leaves it as it was
C27_DemandFollowsLastMode ==
    /\ [](handled = 0 => \A z \in ZoneIds : ~zones[z].is_demanding_heat)
    /\ [][\A z \in ZoneIds :
             IF AppliedByCode(z)
             THEN zones'[z].is_demanding_heat = (event'.new_state.hvac_action = "heating")
             ELSE zones'[z].is_demanding_heat = zones[z].is_demanding_heat]_vars

\* a zone that had been heating (its integral is not 0) is idle after an
\* observation that reports cooling
C27_Witness ==
    /\ LastApplied /\ event.new_state.hvac_action = "cooling"
    /\ ~zones[event.entity_id].is_demanding_heat
    /\ zones[event.entity_id].pid_integral_sum > 0

\* a discarded observation left a heating zone heating
DiscardKeepsHeating ==
    /\ event.entity_id = PidZone /\ event.new_state = ClimateState(Num(17), BAD, "idle")
    /\ zones[PidZone].is_demanding_heat

\* C28: the error of every zone is target_temp - current_temp of the last
\* observation applied to it (0 before the first); only an applied
\* observation changes it
C28_ErrorIsRecomputed ==
    /\ [](\A z \in ZoneIds :
             /\ zones[z].current_error = zones[z].target_temp - zones[z].current_temp
             /\ zones[z].last_update_time = 0 => zones[z].current_error = 0)
    /\ [][\A z \in ZoneIds :
             IF AppliedByCode(z)
             THEN /\ zones'[z].target_temp = event'.new_state.temperature.val
                  /\ zones'[z].current_temp = event'.new_state.current_temperature.val
                  /\ zones'[z].current_error =
                        event'.new_state.temperature.val
                        - event'.new_state.current_temperature.val
             ELSE zones'[z].current_error = zones[z].current_error]_vars

\* a valve update was handled and its zone won the recalculation with the
\* error 10 of its last observation
C28_Witness ==
    /\ event.entity_id = "number.v2" /\ event.new_state.state = Num(50)
    /\ zones["climate.z2"].current_error = 10
    /\ zones["climate.z2"].trv_opening_percent = 50
    /\ max_demand_zone = "climate.z2"

ConfigIndex(z) == CHOOSE i \in 1..Len(ZoneOrder) : ZoneOrder[i] = z

\* position in the evaluation order: the high-priority zones in
\* configuration order, then the low-priority ones in configuration order
EvaluationRank(z) ==
    IF zones[z].priority > 5 THEN ConfigIndex(z) ELSE Len(ZoneOrder) + ConfigIndex(z)

\* C30: the winner has the largest demand metric of the eligible zones and,
\* of the eligible zones with that metric, it is the first in evaluation
\* order; there is no winner exactly when no eligible zone has a positive
\* metric
C30_FirstOfEqualWins ==
    IF HasWinner
    THEN /\ max_demand_zone \in EligibleZones
         /\ RLess(RInt(0), get_demand_metric(Winner))
         /\ \A z \in EligibleZones :
               /\ RLeq(get_demand_metric(zones[z]), get_demand_metric(Winner))
               /\ get_demand_metric(zones[z]) = get_demand_metric(Winner)
                     => EvaluationRank(max_demand_zone) <= EvaluationRank(z)
    ELSE \A z \in EligibleZones : ~RLess(RInt(0), get_demand_metric(zones[z]))

\* the three zones demand with the metric 3; climate.z3, configured last
\* and the only high-priority zone, is the winner
C30_Witness ==
    /\ \A z \in ZoneIds : zones[z].is_demanding_heat /\ get_demand_metric(zones[z]) = <<3, 1>>
    /\ zones["climate.z1"].priority = 2 /\ zones["climate.z3"].priority = 10
    /\ max_demand_zone = "climate.z3"

\* two low-priority zones tie behind a boost (2 at 50 and 4 at 100) while
\* the high-priority zone is idle: the one configured first wins
TieOfLowZonesFirstWins ==
    /\ ~zones["climate.z3"].is_demanding_heat
    /\ zones["climate.z1"].current_error = 2 /\ zones["climate.z1"].trv_opening_percent = 50
    /\ zones["climate.z2"].current_error = 4
    /\ get_demand_metric(zones["climate.z1"]) = get_demand_metric(zones["climate.z2"])
    /\ max_demand_zone = "climate.z1"

\* C31: after an applied heating observation last_error is the
\* current_error the zone held before it; after an applied observation of
\* another mode that keeps the target, last_error is what it was
C31_LastErrorLagsOneStep ==
    [][\A z \in ZoneIds :
          AppliedByCode(z) =>
              IF zones'[z].is_demanding_heat
              THEN zones'[z].last_error = zones[z].current_error
              ELSE zones'[z].target_temp = zones[z].target_temp
                      => zones'[z].last_error = zones[z].last_error]_vars

\* a heating observation 3 above the target follows one 3 below it: the
\* error is -3 and the previous error 3
C31_Witness ==
    /\ event.entity_id = PidZone
    /\ event.new_state.hvac_action = "heating"
    /\ zones[PidZone].is_demanding_heat
    /\ zones[PidZone].current_error = -3
    /\ zones[PidZone].last_error = 3

\* an idle observation with the target kept follows two heating ones: the
\* previous error is still the one of the first
IdleKeepsLastError ==
    /\ event.entity_id = PidZone
    /\ event.new_state.hvac_action = "idle"
    /\ ~zones[PidZone].is_demanding_heat
    /\ zones[PidZone].target_temp = 20
    /\ zones[PidZone].current_error = 3
    /\ zones[PidZone].last_error = -3

\* the only zone that demands heat
OnlyDemanding(z) ==
    /\ zones[z].is_demanding_heat
    /\ \A y \in ZoneIds \ {z} : ~zones[y].is_demanding_heat

\* C32: a zone of priority 0.5 or less that is the only one demanding
\* cannot drive the command, which is MIN_FLOW_TEMP; a zone of a priority
\* above 0.5 that is the only one demanding with a positive demand is the
\* winner
C32_TierBoundaryIsStrict ==
    \A z \in ZoneIds :
        (handled > 0 /\ OnlyDemanding(z)) =>
            IF zones[z].priority <= 5
            THEN /\ ~HasWinner
                 /\ HasCommand /\ Command = RInt(MIN_FLOW_TEMP)
            ELSE RLess(RInt(0), get_demand_metric(zones[z]))
                    => /\ max_demand_zone = z
                       /\ "boiler_on" \in log

\* climate.z2, of priority exactly 0.5, is 10 below its target and the
\* only zone demanding: there is no winner and the command is 5
C32_Witness ==
    /\ zones["climate.z2"].priority = 5
    /\ OnlyDemanding("climate.z2")
    /\ zones["climate.z2"].current_error = 10
    /\ ~HasWinner
    /\ HasCommand /\ Command = <<5, 1>>

\* climate.z1, of priority 0.6, is the only zone demanding and the winner
SixTenthsDrivesAlone ==
    /\ zones["climate.z1"].priority = 6
    /\ OnlyDemanding("climate.z1")
    /\ zones["climate.z1"].current_error = 3
    /\ max_demand_zone = "climate.z1"
    /\ HasCommand /\ RLess(RInt(MIN_FLOW_TEMP), Command)

\* C33: with at least one zone configured, an observation of an entity
\* that is neither a zone nor a configured valve logs the unknown-entity
\* warning
C33_Original ==
    [][UnknownEntityStep => "unknown_entity" \in log']_vars

\* what the code does: after the loop over the zones the name "zone" is
\* bound to a zone, so the warning is never logged
UnknownEntityNeverWarned == "unknown_entity" \notin log

\* an observation of sensor.unknown has been handled: a command was sent
\* and nothing was logged about the entity
UnknownEntityHandledSilently ==
    /\ handled > 0
    /\ event.entity_id = UNKNOWN_ENTITY
    /\ HasCommand
    /\ "unknown_entity" \notin log

\* what the handler of the step computes from the state before it
StepResult ==
    async_hvac_demand_change(zones, event'.entity_id, event'.new_state,
                             event'.time_now, event'.time_arb)

\* C34: a handler whose actuator call raises has made exactly one call,
\* with the command it computed, and the zones keep what the handler wrote;
\* the handler of the next event works on that state, makes its own call
\* and sends the command it computes
C34_FailedDispatchNotRetried ==
    [][handled' = handled + 1 =>
          /\ zones' = StepResult.zones
          /\ sent' = StepResult.sent
          /\ Len(sent') = 1
          /\ emitted' = emitted + 1
          /\ raised' => log' \cap ResultLines = {}
          /\ ~raised' => log' \cap ResultLines # {}]_vars

\* the call of the first handler, for climate.z1 at error 3, raised: the
\* observation is in the zone, one value was handed to the service, once,
\* and no result line was logged
C34_Witness ==
    /\ raised
    /\ handled = 1 /\ emitted = 1
    /\ event.entity_id = "climate.z1"
    /\ zones["climate.z1"].current_error = 3
    /\ zones["climate.z1"].is_demanding_heat
    /\ zones["climate.z1"].last_update_time = event.time_now
    /\ Len(sent) = 1
    /\ log \cap ResultLines = {}

\* a handler whose call returned follows another one for climate.z1 2000 s
\* earlier: it works on what that one wrote (previous error 3, integral
\* 2 * 2000), and two calls were made in all
SecondHandlerSendsItsOwn ==
    /\ handled = 2 /\ emitted = 2
    /\ ~raised
    /\ event.entity_id = "climate.z1"
    /\ zones["climate.z1"].current_error = 2
    /\ zones["climate.z1"].last_error = 3
    /\ zones["climate.z1"].pid_integral_sum = 4000
    /\ "boiler_on" \in log
    /\ HasCommand /\ RLess(RInt(BASE_FLOW_TEMP), Command)

\* C34, its second half as a step: after a handler whose call raised, the
\* next handler makes one call with the command computed from the state the
\* failed one left
HandlerAfterRaiseSends ==
    [][(raised /\ handled' = handled + 1 /\ ~raised') =>
          /\ sent' = calculate_and_command(
                         DispatchEvent(zones, event'.entity_id, event'.new_state,
                                       event'.time_now).zones, event'.time_arb).sent
          /\ log' \cap ResultLines # {}]_vars

\* the zones after the state update of the step's handler, before its
\* recalculation
StepDispatch ==
    DispatchEvent(zones, event'.entity_id, event'.new_state, event'.time_now).zones

\* C35: a numeric valve observation changes the opening of the zone
\* configured with that valve to the reported percentage (clamped) and
\* nothing else: the state update changes no other field of any zone, and
\* after the whole handler every field of every zone but the stored PID
\* components of the recalculation is as the update left it; an observation
\* of a zone entity changes no zone's opening
C35_ValveRoutedToItsZone ==
    [][/\ \A z \in ZoneIds :
             ValveStep(z) =>
                /\ StepDispatch =
                      [zones EXCEPT ![z].trv_opening_percent =
                          IMax(0, IMin(100, event'.new_state.state.val))]
                /\ zones'[z].trv_opening_percent =
                      IMax(0, IMin(100, event'.new_state.state.val))
                /\ \A y \in ZoneIds :
                      /\ ZoneExceptValve(zones'[y]) = ZoneExceptValve(zones[y])
                      /\ y # z => zones'[y].trv_opening_percent = zones[y].trv_opening_percent
       /\ (handled' = handled + 1 /\ event'.entity_id \in ZoneIds) =>
             \A y \in ZoneIds : zones'[y].trv_opening_percent = zones[y].trv_opening_percent]_vars

\* number.v2 reported 50 after number.v1 reported 25: climate.z2 is at 50,
\* climate.z1 still at 25 and climate.z3, which has no valve, at 100
C35_Witness ==
    /\ event.entity_id = "number.v2" /\ event.new_state.state = Num(50)
    /\ zones["climate.z2"].trv_entity_id = "number.v2"
    /\ zones["climate.z2"].trv_opening_percent = 50
    /\ zones["climate.z1"].trv_opening_percent = 25
    /\ zones["climate.z3"].trv_opening_percent = 100

\* the stored derivative term of a zone is not 0
HasDerivative(zone) ==
    RLess(zone.last_pid_d, RInt(0)) \/ RLess(RInt(0), zone.last_pid_d)

\* C36: when the zone whose observation was applied is the winner and the
\* clock reads the same at the update and at the recalculation, the
\* derivative term is 0 and the command is
\* clamp(40 + Kp * current_error + Ki * integral_sum, 5, 80); a winner with
\* a derivative term other than 0 was last updated at an earlier clock
\* reading
C36_NoDerivativeAtSameClock ==
    /\ (handled > 0 /\ LastApplied /\ HasWinner
        /\ max_demand_zone = event.entity_id /\ event.time_arb = event.time_now) =>
           /\ ~HasDerivative(Winner)
           /\ HasCommand
           /\ Command = ClampFlow(RAdd(RInt(40),
                            RAdd(RMul(RInt(Winner.current_error), KP),
                                 RMul(RInt(Winner.pid_integral_sum), KI))))
    /\ (handled > 0 /\ HasWinner /\ HasDerivative(Winner)) =>
           /\ Winner.last_update_time # 0
           /\ Winner.last_update_time < event.time_arb

\* climate.z1 went from error 3 to error 2 at one clock reading and is the
\* winner of its own cycle: no derivative term, the command is 40 + 1
C36_Witness ==
    /\ event.entity_id = "climate.z1" /\ LastApplied
    /\ max_demand_zone = "climate.z1"
    /\ event.time_arb = event.time_now
    /\ Winner.current_error = 2 /\ Winner.last_error = 3
    /\ Winner.pid_integral_sum = 0
    /\ Winner.last_pid_d = RInt(0)
    /\ Command = <<41, 1>>

\* climate.z2 wins the cycle of an observation of climate.z3 2000 s after
\* its own: its derivative term is (10 - 0) / 2000 * 0.1
OtherWinnerHasDerivative ==
    /\ event.entity_id = "climate.z3" /\ LastApplied
    /\ max_demand_zone = "climate.z2"
    /\ event.time_arb = event.time_now
    /\ Winner.last_update_time = event.time_arb - 2000
    /\ Winner.last_pid_d = <<1, 2000>>

\* the winner of its own cycle has a derivative term when the clock moved
\* on between the update and the recalculation
OwnWinnerHasDerivativeAfterDrift ==
    /\ max_demand_zone = event.entity_id /\ LastApplied
    /\ event.time_arb = event.time_now + 1
    /\ Winner.last_pid_d = <<3, 10>>

\* valve openings the recalculation is repeated with
OtherOpenings == {0, 1, 25, 50, 100}

\* the recalculation of the last handler had the valve of zone z been at v
WithOpening(z, v) ==
    calculate_and_command([zones EXCEPT ![z].trv_opening_percent = v], event.time_arb)

\* C37: the valve opening decides who wins, not what is commanded: had the
\* valve of any zone been at any other opening in [0, 100], the
\* recalculation of the last handler would have sent the same command
\* whenever it had the same winner
C37_ValveDoesNotScaleCommand ==
    handled > 0 =>
        /\ \A z \in ZoneIds : WithOpening(z, zones[z].trv_opening_percent).sent = sent
        /\ \A z \in ZoneIds : \A v \in OtherOpenings :
              WithOpening(z, v).max_demand_zone = max_demand_zone
                  => WithOpening(z, v).sent = sent

\* climate.z1, 3 below its target behind a valve at 50, wins against
\* climate.z2 at 4 and is commanded 41.5; it would win with 41.5 at 25 too,
\* and lose at 100
C37_Witness ==
    /\ max_demand_zone = "climate.z1"
    /\ Winner.trv_opening_percent = 50 /\ Winner.current_error = 3
    /\ zones["climate.z2"].is_demanding_heat /\ zones["climate.z2"].current_error = 4
    /\ Command = <<83, 2>>
    /\ WithOpening("climate.z1", 25).max_demand_zone = "climate.z1"
    /\ WithOpening("climate.z1", 25).sent = sent
    /\ WithOpening("climate.z1", 100).max_demand_zone = "climate.z2"

\* the stored PID components of a zone
PidComponents(zone) ==
    <<zone.last_pid_p, zone.last_pid_i, zone.last_pid_d, zone.last_pid_output>>

\* every field of a zone but the stored PID components
ZoneExceptPid(zone) == <<ZoneExceptValve(zone), zone.trv_opening_percent>>

\* C38: the recalculation leaves every field of every zone as the state
\* update of the handler left it, but for the stored P, I, D and total of
\* the winner, which become Kp * current_error, Ki * integral_sum, the
\* derivative term and their sum; the components of every other zone stay
\* what they were, and they are 0 for every zone before the first event
C38_RecalculationWritesWinnerPidOnly ==
    /\ [](handled = 0 =>
             \A z \in ZoneIds :
                PidComponents(zones[z]) = <<RInt(0), RInt(0), RInt(0), RInt(0)>>)
    /\ [][handled' = handled + 1 =>
             \A z \in ZoneIds :
                /\ ZoneExceptPid(zones'[z]) = ZoneExceptPid(StepDispatch[z])
                /\ IF z = max_demand_zone'
                   THEN /\ zones'[z].last_pid_p = RMul(RInt(zones'[z].current_error), KP)
                        /\ zones'[z].last_pid_i = RMul(RInt(zones'[z].pid_integral_sum), KI)
                        /\ zones'[z].last_pid_output =
                              RAdd(RAdd(zones'[z].last_pid_p, zones'[z].last_pid_i),
                                   zones'[z].last_pid_d)
                   ELSE PidComponents(zones'[z]) = PidComponents(zones[z])]_vars

\* climate.z1 won at error 3 and is idle now: it still holds the
\* components of that win; climate.z3 is 3 below its target and heating but
\* not eligible alone: it holds 0 in all four
C38_Witness ==
    /\ ~HasWinner
    /\ ~zones["climate.z1"].is_demanding_heat
    /\ PidComponents(zones["climate.z1"]) = <<Rat(3, 2), RInt(0), RInt(0), Rat(3, 2)>>
    /\ zones["climate.z3"].is_demanding_heat /\ zones["climate.z3"].current_error = 3
    /\ PidComponents(zones["climate.z3"]) = <<RInt(0), RInt(0), RInt(0), RInt(0)>>

\* the zone has a positive demand metric
PositiveDemand(z) == RLess(RInt(0), get_demand_metric(zones[z]))

\* C39: the low-priority zones are counted by is_demanding_heat: when two
\* of them demand, one with a positive demand metric is eligible whatever
\* the error of the other, so there is a winner, and it is that zone if no
\* other zone has a positive metric; a zone that is heating with an error
\* of 0 or less, of whatever priority, is never the winner
C39_EligibilityCountsDemandingZones ==
    handled > 0 =>
        /\ \A z \in ZoneIds :
              (zones[z].is_demanding_heat /\ zones[z].current_error <= 0)
                  => max_demand_zone # z
        /\ \A z \in DemandingLow :
              (PositiveDemand(z) /\ DemandingLow \ {z} # {}) =>
                  /\ HasWinner
                  /\ RLeq(get_demand_metric(zones[z]), get_demand_metric(Winner))
                  /\ (\A y \in ZoneIds \ {z} : ~PositiveDemand(y)) => max_demand_zone = z

\* climate.z2 and climate.z3 are the low-priority zones and both heating,
\* climate.z3 3 above its target: climate.z2, 3 below, is the winner
C39_Witness ==
    /\ DemandingLow = {"climate.z2", "climate.z3"}
    /\ zones["climate.z3"].current_error = -3
    /\ zones["climate.z2"].current_error = 3
    /\ ~zones["climate.z1"].is_demanding_heat
    /\ max_demand_zone = "climate.z2"
    /\ "boiler_on" \in log

\* the high-priority zone is heating 3 above its target and the only one
\* demanding: nobody wins and the command is MIN_FLOW_TEMP
HeatingAboveTargetNeverWins ==
    /\ zones["climate.z1"].priority > 5
    /\ OnlyDemanding("climate.z1")
    /\ zones["climate.z1"].current_error = -3
    /\ ~HasWinner
    /\ HasCommand /\ Command = RInt(MIN_FLOW_TEMP)

\* the integral the observation of the step starts from: 0 if it changes a
\* target above 0, what the zone held otherwise
IntegralBase(z) ==
    IF zones[z].last_target_temp > 0
       /\ event'.new_state.temperature.val # zones[z].last_target_temp
    THEN 0 ELSE zones[z].pid_integral_sum

\* C40: every applied observation, heating or not, stores its clock
\* reading in last_update_time; one of another mode adds nothing to
\* the integral; a heating one that follows one of another mode adds its
\* error times the time since that observation (clamped to +-10000)
C40_IdleAdvancesTimeOnly ==
    [][\A z \in ZoneIds :
          AppliedByCode(z) =>
              /\ zones'[z].last_update_time = event'.time_now
              /\ ~zones'[z].is_demanding_heat
                    => zones'[z].pid_integral_sum = IntegralBase(z)
              /\ (zones'[z].is_demanding_heat /\ ~zones[z].is_demanding_heat
                  /\ zones[z].last_update_time # 0) =>
                    zones'[z].pid_integral_sum =
                       Clamp10000(IntegralBase(z)
                                  + ObservedError * (event'.time_now - zones[z].last_update_time))]_vars

\* heating at error 3, idle 2000 s later, heating at error 3 after another
\* 2000 s: the integral is 3 * 2000, neither 3 * 4000 (clamped) nor 0
C40_Witness ==
    /\ handled = 3
    /\ event.entity_id = PidZone /\ event.new_state = Heating(17, 20)
    /\ event.time_now = ClockStart + 4000
    /\ zones[PidZone].last_update_time = ClockStart + 4000
    /\ zones[PidZone].current_error = 3 /\ zones[PidZone].last_error = 3
    /\ zones[PidZone].pid_integral_sum = 6000

====
